---------------------------- MODULE Spec2Model ----------------------------
(***************************************************************************)
(* A model of the cable-datasheet extraction scripts of                    *)
(* CableConcentricityCalculator:                                           *)
(*                                                                         *)
(*   Datasheets/merge_cable_libraries.py   the library merger              *)
(*   Datasheets/MIL-DTL-27500Regex.py      the stateful M27500 table scan  *)
(*   Datasheets/MIL-DTL-22759Regex.py      the M22759 unit-pair parser     *)
(*   Datasheets/LAPPRegex.py               the LAPP field normalizer       *)
(*                                                                         *)
(* Each script is a process of its own, so each has its own specification  *)
(* (SpecMerge, SpecScan, SpecUnit, SpecLapp) over its own variables; the   *)
(* variables of the other scripts stay at their idle values.               *)
(*                                                                         *)
(* Text is modelled as a sequence of tokens (one-character strings, and    *)
(* the words the regular expressions treat as units), Python's None as the *)
(* string NoneValue, and a float as an exact rational <<num, den>> in      *)
(* lowest terms.                                                           *)
(***************************************************************************)
EXTENDS Integers, Sequences, FiniteSets, TLC

VARIABLES
    \* ---- merge_cable_libraries.py: merge_json_files ----
    mpc,            \* position in merge_json_files: "open", "loop", "done"
    mFile,          \* 1-based index into json_files of the file handled next
    cables,         \* the list loaded from the current file
    mPos,           \* 1-based index into cables of the record handled next
    all_cables,     \* the accumulated, filtered records
    cable_ids,      \* the CableIds already added
    skipped,        \* the ids printed by "Skipping duplicate"
    added_printed,  \* the numbers printed by "Added ... cables", one per file read
    library,        \* the content written to CableLibrary.json, or NoneValue
    inputs,         \* the record lists read so far, one per file (history)
    \* ---- MIL-DTL-27500Regex.py: main / extract_datasheet_info_27500 ----
    spc,            \* position in main: "idle" (between calls), "scan", "done"
    docNo,          \* number of selected documents handled so far
    nMatches,       \* number of matches consumed over all documents
    text,           \* the matches of the current document consumed so far
    current_context,\* the scan's context: conductor_count and type_codes
    results,        \* the rows emitted by the current call
    origin,         \* for each row of results, the index in text of its data row
    all_structured_data, \* the rows collected by main over all documents
    \* ---- parse_unit_pair (both scripts) ----
    upToken,        \* the token handed to parse_unit_pair
    upFamily,       \* the script whose parse_unit_pair was applied, or "none"
    upResult,       \* what the call returned (or raised); kind "none" before
    \* ---- LAPPRegex.py: normalize_cable_properties ----
    lappRow,        \* the cleaned raw row and its style
    lappNorm,       \* the normalized row, once normalized
    \* ---- MIL-DTL-27500Regex.py: transform_to_core_format_27500 ----
    final_data,     \* the records main writes, <<>> before the transformation
    \* ---- LAPPRegex.py: transform_to_core_format ----
    tpc,            \* position in the call: "idle", "loop", "done"
    normalized_data,\* the normalized rows handed to the call
    tPos,           \* 1-based index into normalized_data of the row handled next
    final_output,   \* the records emitted so far
    printed,        \* the warnings printed so far (history)
    emitted_from,   \* for each record of final_output, the index of its row (history)
    geometry,       \* for each record, the locals of the jacket calculation (history)
    \* ---- generate_m22759.py ----
    generator_runs, \* number of runs of the script on the library so far
    \* ---- MIL-DTL-22759Regex.py: main / transform_to_core_format ----
    hpc,            \* position in main: "idle", "ready" (rows collected), "done"
    rows_22759,     \* all_structured_data, the normalized rows collected by main
    final_22759     \* final_data, the records main writes, <<>> before

mergeVars == <<mpc, mFile, cables, mPos, all_cables, cable_ids, skipped, added_printed,
               library, inputs>>
scanVars  == <<spc, docNo, nMatches, text, current_context, results, origin, all_structured_data,
               final_data>>
unitVars  == <<upToken, upFamily, upResult>>
lappVars  == <<lappRow, lappNorm>>
asmVars   == <<tpc, normalized_data, tPos, final_output, printed, emitted_from, geometry>>
hookVars  == <<generator_runs, hpc, rows_22759, final_22759>>
vars      == <<mergeVars, scanVars, unitVars, lappVars, asmVars, hookVars>>

NoneValue == "<None>"

\* Python truthiness of a value that is None or a string.
Truthy(x) == x # NoneValue /\ x # ""

\* All sequences over S of length at most n.
SeqsUpTo(S, n) == UNION {[1..k -> S] : k \in 0..n}

RECURSIVE Flatten(_)
Flatten(ss) == IF ss = <<>> THEN <<>> ELSE Head(ss) \o Flatten(Tail(ss))

(***************************************************************************)
(*                     merge_cable_libraries.py                            *)
(***************************************************************************)

ALLOWED_CABLE_PARAMS ==
    {"CableId", "PartNumber", "Manufacturer", "Name", "Type", "Cores",
     "JacketThickness", "JacketColor", "HasShield", "ShieldType",
     "ShieldThickness", "ShieldCoverage", "HasDrainWire", "DrainWireDiameter",
     "IsFiller", "SpecifiedOuterDiameter", "Description"}

ALLOWED_CORE_PARAMS ==
    {"CoreId", "ConductorDiameter", "InsulationThickness", "InsulationColor",
     "Gauge", "ConductorMaterial"}

\* json_files: three files are named; each may be missing.
NumJsonFiles == 3

\* Bound: the number of records read over all files.
MaxRecords == 3

\* dict.get(key): the value, or None for a missing key.
DictGet(d, key) == IF key \in DOMAIN d THEN d[key] ELSE NoneValue

\* The dict comprehension of line 28.
filter_core(core) ==
    [k \in (DOMAIN core) \cap ALLOWED_CORE_PARAMS |-> core[k]]

\* Mutant: every key of the record is copied (no allow-list).
filter_cable_entry_keep_all(cable) ==
    [key \in DOMAIN cable |->
        IF key = "Cores"
        THEN [i \in DOMAIN cable[key] |-> filter_core(cable[key][i])]
        ELSE cable[key]]

filter_cable_entry(cable) ==
    [key \in ALLOWED_CABLE_PARAMS \cap (DOMAIN cable) |->
        IF key = "Cores"
        THEN [i \in DOMAIN cable[key] |-> filter_core(cable[key][i])]
        ELSE cable[key]]

\* The records the extractors write, reduced to a few attributes: two records
\* share the id "a" and differ in every other attribute, one has no CableId,
\* one an empty CableId; JacketMaterial, ShieldMaterial and "Weight (kg/km)"
\* are extension attributes of the assemblers, Stranding one of a core.
SampleCables ==
    { [CableId |-> "a", PartNumber |-> "P1", JacketMaterial |-> "PVC",
       Cores |-> << [CoreId |-> "1", Gauge |-> "22", Stranding |-> "7/30"],
                    [CoreId |-> "2", Gauge |-> "22"] >>],
      ("Weight (kg/km)" :> "12.5") @@
      [CableId |-> "a", PartNumber |-> "P2", Description |-> "later a",
       Cores |-> << [CoreId |-> "1", Gauge |-> "18"] >>],
      [CableId |-> "b", PartNumber |-> "P3", ShieldMaterial |-> "None"],
      [PartNumber |-> "P4", JacketMaterial |-> "PUR"],
      [CableId |-> "", PartNumber |-> "P5", Cores |-> << >>] }

MergeInit ==
    /\ mpc = "open"
    /\ mFile = 1
    /\ cables = <<>>
    /\ mPos = 1
    /\ all_cables = <<>>
    /\ cable_ids = {}
    /\ skipped = <<>>
    /\ added_printed = <<>>
    /\ library = NoneValue
    /\ inputs = <<>>

\* Mutant: a record is added whenever it has an id, duplicate or not.
ShouldAdd_no_dedupe(cable_id, ids) == Truthy(cable_id)

\* Line 65: if cable_id and cable_id not in cable_ids.
ShouldAdd(cable_id, ids) == Truthy(cable_id) /\ cable_id \notin ids

\* Mutant: a later record with a known id replaces the earlier one.
MergedCables_last_wins(lib, ids, cable) ==
    IF ~ Truthy(DictGet(cable, "CableId"))
    THEN lib
    ELSE IF DictGet(cable, "CableId") \in ids
    THEN [i \in DOMAIN lib |->
            IF DictGet(lib[i], "CableId") = DictGet(cable, "CableId")
            THEN filter_cable_entry(cable) ELSE lib[i]]
    ELSE Append(lib, filter_cable_entry(cable))

\* Lines 65-67: all_cables after the record; the filtered record is appended
\* when its id is usable and new.
MergedCables(lib, ids, cable) ==
    IF ShouldAdd(DictGet(cable, "CableId"), ids)
    THEN Append(lib, filter_cable_entry(cable))
    ELSE lib

\* The number of records read so far.
RecordsRead == Len(Flatten(inputs))

\* Lines 52-54: the file does not exist and is skipped.
SkipMissingFile ==
    /\ mpc = "open"
    /\ mFile <= NumJsonFiles
    /\ inputs' = Append(inputs, <<>>)
    /\ mFile' = mFile + 1
    /\ UNCHANGED <<mpc, cables, mPos, all_cables, cable_ids, skipped, added_printed, library>>
    /\ UNCHANGED <<scanVars, unitVars, lappVars, asmVars, hookVars>>

\* Lines 58-59: the file's list is loaded.
ReadFile ==
    /\ mpc = "open"
    /\ mFile <= NumJsonFiles
    /\ \E cs \in SeqsUpTo(SampleCables, MaxRecords - RecordsRead) :
          /\ cables' = cs
          /\ inputs' = Append(inputs, cs)
    /\ mPos' = 1
    /\ mpc' = "loop"
    /\ UNCHANGED <<mFile, all_cables, cable_ids, skipped, added_printed, library>>
    /\ UNCHANGED <<scanVars, unitVars, lappVars, asmVars, hookVars>>

\* Lines 62-70: one iteration of the loop over the file's records.
ProcessCable ==
    /\ mpc = "loop"
    /\ mPos <= Len(cables)
    /\ LET cable == cables[mPos]
           cable_id == DictGet(cable, "CableId")
       IN  /\ all_cables' = MergedCables(all_cables, cable_ids, cable)
           /\ cable_ids' = IF ShouldAdd(cable_id, cable_ids)
                           THEN cable_ids \cup {cable_id} ELSE cable_ids
           /\ skipped' = IF ~ ShouldAdd(cable_id, cable_ids) /\ cable_id \in cable_ids
                         THEN Append(skipped, cable_id) ELSE skipped
    /\ mPos' = mPos + 1
    /\ UNCHANGED <<mpc, mFile, cables, added_printed, library, inputs>>
    /\ UNCHANGED <<scanVars, unitVars, lappVars, asmVars, hookVars>>

\* Line 72: len([c for c in cables if c.get('CableId') not in cable_ids or
\* c.get('CableId') == cable_id]), cable_id being that of the last record.
AddedCount(cs, ids) ==
    Cardinality({k \in DOMAIN cs :
                    \/ DictGet(cs[k], "CableId") \notin ids
                    \/ DictGet(cs[k], "CableId") = DictGet(cs[Len(cs)], "CableId")})

\* Line 72, and the next iteration of the loop over json_files.
EndFile ==
    /\ mpc = "loop"
    /\ mPos > Len(cables)
    /\ added_printed' = Append(added_printed, AddedCount(cables, cable_ids))
    /\ mFile' = mFile + 1
    /\ mpc' = "open"
    /\ UNCHANGED <<cables, mPos, all_cables, cable_ids, skipped, library, inputs>>
    /\ UNCHANGED <<scanVars, unitVars, lappVars, asmVars, hookVars>>

\* Lines 76-82: the library is written in the wrapper format.
WriteLibrary ==
    /\ mpc = "open"
    /\ mFile > NumJsonFiles
    /\ library' = [Cables |-> all_cables]
    /\ mpc' = "done"
    /\ UNCHANGED <<mFile, cables, mPos, all_cables, cable_ids, skipped, added_printed, inputs>>
    /\ UNCHANGED <<scanVars, unitVars, lappVars, asmVars, hookVars>>


(***************************************************************************)
(*        parse_unit_pair (MIL-DTL-22759Regex.py, MIL-DTL-27500Regex.py)   *)
(***************************************************************************)

\* Bound: the length of a token handed to parse_unit_pair.
MaxTokenLen == 5

Digits == {"0", "1", "2", "3", "4", "5", "6", "7", "8", "9"}

DigitValue(c) ==
    CASE c = "0" -> 0 [] c = "1" -> 1 [] c = "2" -> 2 [] c = "3" -> 3
      [] c = "4" -> 4 [] c = "5" -> 5 [] c = "6" -> 6 [] c = "7" -> 7
      [] c = "8" -> 8 [] c = "9" -> 9

\* The characters of the tokens: digits, the decimal point, blank, parentheses.
UnitChars == {"0", "1", ".", " ", "(", ")"}

RECURSIVE Gcd(_, _)
Gcd(a, b) == IF b = 0 THEN a ELSE Gcd(b, a % b)

\* The float n/d, as a fraction in lowest terms.
Rat(n, d) == <<n \div Gcd(n, d), d \div Gcd(n, d)>>

Zero == Rat(0, 1)

RECURSIVE Pow10(_)
Pow10(k) == IF k = 0 THEN 1 ELSE 10 * Pow10(k - 1)

\* int() of a string of digits.
RECURSIVE IntOf(_)
IntOf(ds) ==
    IF ds = <<>> THEN 0
    ELSE 10 * IntOf(SubSeq(ds, 1, Len(ds) - 1)) + DigitValue(ds[Len(ds)])

\* str.strip() for the blank.
RECURSIVE strip(_)
strip(s) ==
    IF s = <<>> THEN s
    ELSE IF Head(s) = " " THEN strip(Tail(s))
    ELSE IF s[Len(s)] = " " THEN strip(SubSeq(s, 1, Len(s) - 1))
    ELSE s

\* The length of the longest prefix of s, from position i on, made of
\* characters of class.
RECURSIVE RunLength(_, _, _)
RunLength(s, i, class) ==
    IF i > Len(s) \/ s[i] \notin class THEN 0
    ELSE 1 + RunLength(s, i + 1, class)

DotPositions(s) == {i \in DOMAIN s : s[i] = "."}

\* float(s) for a string of digits, points, blanks and parentheses: a value
\* for digits with at most one point and at least one digit, ValueError
\* otherwise.
PyFloat(s) ==
    IF /\ \A i \in DOMAIN s : s[i] \in Digits \cup {"."}
       /\ Cardinality(DotPositions(s)) <= 1
       /\ \E i \in DOMAIN s : s[i] \in Digits
    THEN LET ds   == SelectSeq(s, LAMBDA c : c \in Digits)
             frac == IF DotPositions(s) = {} THEN 0
                     ELSE Len(s) - (CHOOSE i \in DotPositions(s) : TRUE)
         IN  [ok |-> TRUE, value |-> Rat(IntOf(ds), Pow10(frac))]
    ELSE [ok |-> FALSE, value |-> "ValueError"]

\* re.match(r'([0-9\.]+)\s*\(([\d\.]+)\)', s): the two groups, or no match.
\* The classes of neighbouring parts are disjoint, so each run is maximal.
UnitPairMatch(s) ==
    LET n1 == RunLength(s, 1, Digits \cup {"."})
        ws == RunLength(s, n1 + 1, {" "})
        po == n1 + ws + 1
        n2 == RunLength(s, po + 1, Digits \cup {"."})
        pc == po + n2 + 1
    IN  IF /\ n1 >= 1
           /\ po <= Len(s) /\ s[po] = "("
           /\ n2 >= 1
           /\ pc <= Len(s) /\ s[pc] = ")"
        THEN [matched |-> TRUE, g1 |-> SubSeq(s, 1, n1), g2 |-> SubSeq(s, po + 1, pc - 1)]
        ELSE [matched |-> FALSE]

Return(v) == [kind |-> "return", value |-> v]
Raise(x)  == [kind |-> "raise", value |-> x]

UnitPair(us, metric) == [us |-> us, metric |-> metric]

\* Mutant: the other family's policy, the conversion at 25.4.
BareMetric_22759_converting(us_val) == Rat(us_val[1] * 10, us_val[2] * 254)

\* M22759, line 49: the metric value of a single number is unknown (0).
BareMetric_22759(us_val) == Zero

\* M27500, line 105: us_val / 25.4.
BareMetric_27500(us_val) == Rat(us_val[1] * 10, us_val[2] * 254)

\* MIL-DTL-22759Regex.py, lines 19-52.
parse_unit_pair_22759(data_str) ==
    LET s == strip(data_str)
        m == UnitPairMatch(s)
    IN  IF m.matched
        THEN IF PyFloat(m.g1).ok /\ PyFloat(m.g2).ok
             THEN Return(UnitPair(PyFloat(m.g1).value, PyFloat(m.g2).value))
             ELSE Return(UnitPair(Zero, Zero))        \* except ValueError
        ELSE IF PyFloat(s).ok
             THEN Return(UnitPair(PyFloat(s).value, BareMetric_22759(PyFloat(s).value)))
             ELSE Return(UnitPair(Zero, Zero))        \* except ValueError

\* Mutant: the fallback conversion is not guarded by try/except.
parse_unit_pair_27500_unguarded(data_str) ==
    LET s == strip(data_str)
        m == UnitPairMatch(s)
    IN  IF m.matched
        THEN IF PyFloat(m.g1).ok /\ PyFloat(m.g2).ok
             THEN Return(UnitPair(PyFloat(m.g1).value, PyFloat(m.g2).value))
             ELSE Return(UnitPair(Zero, Zero))
        ELSE IF PyFloat(s).ok
             THEN Return(UnitPair(PyFloat(s).value, BareMetric_27500(PyFloat(s).value)))
             ELSE Raise("ValueError")

\* MIL-DTL-27500Regex.py, lines 84-107.
parse_unit_pair_27500(data_str) ==
    LET s == strip(data_str)
        m == UnitPairMatch(s)
    IN  IF m.matched
        THEN IF PyFloat(m.g1).ok /\ PyFloat(m.g2).ok
             THEN Return(UnitPair(PyFloat(m.g1).value, PyFloat(m.g2).value))
             ELSE Return(UnitPair(Zero, Zero))        \* except ValueError
        ELSE IF PyFloat(s).ok
             THEN Return(UnitPair(PyFloat(s).value, BareMetric_27500(PyFloat(s).value)))
             ELSE Return(UnitPair(Zero, Zero))        \* except ValueError

UnitTokens == SeqsUpTo(UnitChars, MaxTokenLen)

UnitInit ==
    /\ upToken \in UnitTokens
    /\ upFamily = "none"
    /\ upResult = [kind |-> "none"]

\* normalize_m22759_properties hands a field of the row to parse_unit_pair.
ParseUnitPair22759 ==
    /\ upFamily = "none"
    /\ upFamily' = "M22759"
    /\ upResult' = parse_unit_pair_22759(upToken)
    /\ UNCHANGED upToken
    /\ UNCHANGED <<mergeVars, scanVars, lappVars, asmVars, hookVars>>

\* normalize_m27500_properties hands a field of the row to parse_unit_pair.
ParseUnitPair27500 ==
    /\ upFamily = "none"
    /\ upFamily' = "M27500"
    /\ upResult' = parse_unit_pair_27500(upToken)
    /\ UNCHANGED upToken
    /\ UNCHANGED <<mergeVars, scanVars, lappVars, asmVars, hookVars>>

(***************************************************************************)
(*                     MIL-DTL-27500Regex.py                               *)
(***************************************************************************)

\* Bounds: the documents selected, and the matches of master_pattern over
\* all documents.
MaxDocs == 2
MaxMatches == 4

M27500_TYPE_CODE_DEFAULTS ==
    [tc \in {"SA", "TA", "RC", "RE", "VA", "WA", "LE", "LH",
             "TE", "TF", "TG", "TH", "TK", "TL", "TM", "TN",
             "WB", "WC", "WE"} |->
        IF tc \in {"SA", "TA", "RC", "RE", "VA", "WA", "LE", "LH"} THEN <<"N", "06">>
        ELSE IF tc \in {"TE", "TF", "TG", "TH", "TK", "TL", "TM", "TN"} THEN <<"N", "14">>
        ELSE <<"N", "24">>]

\* Mutant: an unknown type code is given the codes of a shielded type.
get_default_codes_by_type_shielded(type_code) ==
    IF type_code \in DOMAIN M27500_TYPE_CODE_DEFAULTS
    THEN M27500_TYPE_CODE_DEFAULTS[type_code]
    ELSE <<"N", "06">>

get_default_codes_by_type(type_code) ==
    IF type_code \in DOMAIN M27500_TYPE_CODE_DEFAULTS
    THEN M27500_TYPE_CODE_DEFAULTS[type_code]
    ELSE <<"U", "00">>

\* re.sub(r'\s+', ' ', ...): every run of blanks becomes one blank.
RECURSIVE CollapseBlanks(_)
CollapseBlanks(s) ==
    IF Len(s) < 2 THEN s
    ELSE IF s[1] = " " /\ s[2] = " " THEN CollapseBlanks(Tail(s))
    ELSE <<s[1]>> \o CollapseBlanks(Tail(s))

headers_27500 == <<"AWG Size", "Stranding", "Shield Diameter", "Jacket Diameter", "Weight">>

\* clean_match_row: each group stripped and its blanks collapsed, zipped with
\* the headers.
clean_match_row_27500(match_tuple) ==
    [h \in {headers_27500[k] : k \in DOMAIN headers_27500} |->
        LET k == CHOOSE k \in DOMAIN headers_27500 : headers_27500[k] = h
        IN  CollapseBlanks(strip(match_tuple[k]))]

\* str(n) for n >= 0.
RECURSIVE IntToChars(_)
IntToChars(n) ==
    LET d == <<"0", "1", "2", "3", "4", "5", "6", "7", "8", "9">>[(n % 10) + 1]
    IN  IF n < 10 THEN <<d>> ELSE IntToChars(n \div 10) \o <<d>>

\* str.isdigit(): not empty, digits only.
IsDigitString(s) == s # <<>> /\ \A k \in DOMAIN s : s[k] \in Digits

\* Mutant: the gauge code is the gauge as written, without padding.
awg_code_unpadded(awg_size) ==
    LET awg_raw == strip(awg_size)
    IN  IF IsDigitString(awg_raw) THEN IntToChars(IntOf(awg_raw))
        ELSE IF \E k \in DOMAIN awg_raw : awg_raw[k] = "/"
        THEN SelectSeq(awg_raw, LAMBDA c : c # "/")
        ELSE <<"X", "X">>

\* Lines 159-167: the gauge code of the part number.
awg_code(awg_size) ==
    LET awg_raw == strip(awg_size)
    IN  IF IsDigitString(awg_raw)
        THEN IF IntOf(awg_raw) < 10
             THEN <<"0">> \o IntToChars(IntOf(awg_raw))
             ELSE IntToChars(IntOf(awg_raw))
        ELSE IF \E k \in DOMAIN awg_raw : awg_raw[k] = "/"
        THEN SelectSeq(awg_raw, LAMBDA c : c # "/")
        ELSE <<"X", "X">>

\* Lines 124-179. The part number is the sequence of its pieces.
normalize_m27500_properties(row_data, conductor_count, type_code) ==
    LET codes == get_default_codes_by_type(type_code)
        field(f) == IF f \in DOMAIN row_data
                    THEN parse_unit_pair_27500(row_data[f]).value
                    ELSE UnitPair(Zero, Zero)
    IN  ("Part Number Base" :> DictGet(row_data, "Part Number Base")) @@
        ("AWG Size" :> DictGet(row_data, "AWG Size")) @@
        ("Stranding" :> DictGet(row_data, "Stranding")) @@
        ("Conductor Count" :> conductor_count) @@
        ("M27500 Type Code" :> type_code) @@
        ("Shield Diameter" :> field("Shield Diameter")) @@
        ("Jacket Diameter" :> field("Jacket Diameter")) @@
        ("Weight" :> field("Weight")) @@
        ("Full Part Number Base" :>
            <<"M27500-">> \o awg_code(DictGet(row_data, "AWG Size")) \o <<type_code>>
            \o IntToChars(conductor_count) \o <<"C", codes[1], codes[2]>>) @@
        ("_Shield_Material_Code" :> codes[1]) @@
        ("_Jacket_Material_Code" :> codes[2])

\* The context declarations of the documents: the TYPE_CODES group as
\* tokens (a type code, "and", ",", blank). ZZ is in no code table.
ContextDeclarations ==
    { <<"SA", " ", "and", " ", "TA">>,
      <<"WB", ",", " ", "ZZ">>,
      <<"SA", " ", "AND", " ", "TA">> }

\* The CONDUCTOR_COUNT group (\d) of the section headers of the documents.
HeaderCounts == {"0", "2", "4"}

\* The five groups of the data rows of the documents.
DataRows ==
    { << <<"2", "0">>, <<"1", "9", "/", "3", "2">>,
         <<"0", ".", "1", " ", " ", "(", "2", ".", "5", ")">>,
         <<"0", ".", "2", " ", "(", "5", ".", "1", ")">>,
         <<"9", ".", "5", "(", "1", "4", ")">> >>,
      << <<"2", "/", "0">>, <<"7", "/", "1">>,
         <<"0", ".", "5">>, <<"0", ".", "6", "(", "1", "5", ")">>, <<"3">> >>,
      << <<"8">>, <<"1", "9">>,
         <<"1">>, <<"2", ".", "5", " ", "(", "6", "3", ".", "5", ")">>, <<"4">> >> }

ContextMatch(decl) == [kind |-> "context", TYPE_CODES |-> decl]
HeaderMatch(d)     == [kind |-> "header", CONDUCTOR_COUNT |-> d]
RowMatch(groups)   == [kind |-> "row", groups |-> groups]

\* The string a sequence of tokens spells.
RECURSIVE Join(_)
Join(tokens) == IF tokens = <<>> THEN "" ELSE Head(tokens) \o Join(Tail(tokens))

\* str.split(','), then strip and drop of the empty pieces (line 230); each
\* piece left is one type code.
RECURSIVE SplitCodes(_, _)
SplitCodes(s, piece) ==
    LET done == IF strip(piece) = <<>> THEN <<>> ELSE <<Join(strip(piece))>>
    IN  IF s = <<>> THEN done
        ELSE IF Head(s) = "," THEN done \o SplitCodes(Tail(s), <<>>)
        ELSE SplitCodes(Tail(s), Append(piece, Head(s)))

\* Lines 229-230: str.replace('and', ',') replaces the lower-case word only,
\* though the pattern (re.IGNORECASE) matches the word in either case.
ParseTypeCodes(type_codes_group) ==
    LET codes_str == [k \in DOMAIN type_codes_group |->
                        IF type_codes_group[k] = "and" THEN "," ELSE type_codes_group[k]]
    IN  SplitCodes(codes_str, <<>>)

\* Mutant: a context declaration also forgets the conductor count.
ContextUpdate_resets_count(ctx, type_codes_group) ==
    [conductor_count |-> 0, type_codes |-> ParseTypeCodes(type_codes_group)]

\* Lines 227-230: a context declaration replaces the type codes.
ContextUpdate(ctx, type_codes_group) ==
    [ctx EXCEPT !.type_codes = ParseTypeCodes(type_codes_group)]

\* Lines 232-234: a section header replaces the conductor count.
HeaderUpdate(ctx, count_group) ==
    [ctx EXCEPT !.conductor_count = IntOf(count_group)]

\* Mutant: a data row is accepted as soon as type codes are known.
ContextEstablished_codes_only(ctx) == ctx.type_codes # <<>>

\* Line 238.
ContextEstablished(ctx) == ctx.conductor_count > 0 /\ ctx.type_codes # <<>>

\* Mutant: the rows of one data row in the reverse of the declared order.
RowsOf_reversed(ctx, groups) ==
    [k \in DOMAIN ctx.type_codes |->
        normalize_m27500_properties(clean_match_row_27500(groups), ctx.conductor_count,
                                    ctx.type_codes[Len(ctx.type_codes) + 1 - k])]

\* Lines 242-255: the rows of one data row, one per active type code.
RowsOf(ctx, groups) ==
    [k \in DOMAIN ctx.type_codes |->
        normalize_m27500_properties(clean_match_row_27500(groups),
                                    ctx.conductor_count, ctx.type_codes[k])]

\* Mutant: the context is module state that outlives the call.
FreshContext_kept == current_context

\* Lines 218-221: every call creates its context.
FreshContext == [conductor_count |-> 0, type_codes |-> <<>>]

ScanInit ==
    /\ spc = "idle"
    /\ docNo = 0
    /\ nMatches = 0
    /\ text = <<>>
    /\ current_context = [conductor_count |-> 0, type_codes |-> <<>>]
    /\ results = <<>>
    /\ origin = <<>>
    /\ all_structured_data = <<>>
    /\ final_data = <<>>

\* main, lines 412-418: the text of a selected file cannot be extracted and
\* the file is passed over.
SkipDocument ==
    /\ spc = "idle"
    /\ docNo < MaxDocs
    /\ docNo' = docNo + 1
    /\ UNCHANGED <<spc, nMatches, text, current_context, results, origin, all_structured_data>>
    /\ UNCHANGED <<mergeVars, unitVars, lappVars, asmVars, hookVars, final_data>>

\* main, line 428, and lines 189-224 of extract_datasheet_info_27500.
StartDocument ==
    /\ spc = "idle"
    /\ docNo < MaxDocs
    /\ docNo' = docNo + 1
    /\ spc' = "scan"
    /\ text' = <<>>
    /\ current_context' = FreshContext
    /\ results' = <<>>
    /\ origin' = <<>>
    /\ UNCHANGED <<nMatches, all_structured_data>>
    /\ UNCHANGED <<mergeVars, unitVars, lappVars, asmVars, hookVars, final_data>>

\* Lines 226-255: one iteration of the loop over the matches.
ScanMatch(m) ==
    /\ spc = "scan"
    /\ nMatches < MaxMatches
    /\ nMatches' = nMatches + 1
    /\ text' = Append(text, m)
    /\ IF m.kind = "context"
       THEN /\ current_context' = ContextUpdate(current_context, m.TYPE_CODES)
            /\ UNCHANGED <<results, origin>>
       ELSE IF m.kind = "header"
       THEN /\ current_context' = HeaderUpdate(current_context, <<m.CONDUCTOR_COUNT>>)
            /\ UNCHANGED <<results, origin>>
       ELSE IF ContextEstablished(current_context)
       THEN /\ results' = results \o RowsOf(current_context, m.groups)
            /\ origin' = origin \o [k \in DOMAIN current_context.type_codes |-> Len(text) + 1]
            /\ UNCHANGED current_context
       ELSE UNCHANGED <<current_context, results, origin>>
    /\ UNCHANGED <<spc, docNo, all_structured_data>>
    /\ UNCHANGED <<mergeVars, unitVars, lappVars, asmVars, hookVars, final_data>>

ScanContext == \E decl \in ContextDeclarations : ScanMatch(ContextMatch(decl))
ScanHeader  == \E d \in HeaderCounts : ScanMatch(HeaderMatch(d))
ScanDataRow == \E groups \in DataRows : ScanMatch(RowMatch(groups))

\* Line 257 and main, lines 430-431: the call returns and its rows are
\* collected; the call's list and matches are gone, and what the call left in
\* current_context is kept only for a later call to disregard.
EndDocument ==
    /\ spc = "scan"
    /\ spc' = "idle"
    /\ all_structured_data' = all_structured_data \o results
    /\ text' = <<>>
    /\ results' = <<>>
    /\ origin' = <<>>
    /\ UNCHANGED <<docNo, nMatches, current_context>>
    /\ UNCHANGED <<mergeVars, unitVars, lappVars, asmVars, hookVars, final_data>>

(***************************************************************************)
(*      MIL-DTL-27500Regex.py: transform_to_core_format_27500              *)
(***************************************************************************)

M27500_COMPONENT_CODES ==
    ("SA" :> "M22759/7") @@ ("TA" :> "M22759/8") @@ ("RC" :> "M22759/11") @@
    ("RE" :> "M22759/12") @@ ("TE" :> "M22759/16") @@ ("TF" :> "M22759/17") @@
    ("TG" :> "M22759/18") @@ ("TH" :> "M22759/19") @@ ("VA" :> "M22759/5") @@
    ("WA" :> "M22759/6") @@ ("LE" :> "M22759/9") @@ ("LH" :> "M22759/10") @@
    ("TK" :> "M22759/20") @@ ("TL" :> "M22759/21") @@ ("TM" :> "M22759/22") @@
    ("TN" :> "M22759/23") @@ ("JB" :> "M22759/28") @@ ("JC" :> "M22759/29") @@
    ("JD" :> "M22759/30") @@ ("JE" :> "M22759/31") @@ ("WB" :> "M22759/80") @@
    ("WC" :> "M22759/81") @@ ("WE" :> "M22759/82") @@ ("WG" :> "M22759/84") @@
    ("WH" :> "M22759/85") @@ ("WJ" :> "M22759/86") @@ ("WK" :> "M22759/87") @@
    ("WL" :> "M22759/88") @@ ("WM" :> "M22759/89") @@ ("WN" :> "M22759/90") @@
    ("WP" :> "M22759/91") @@ ("WR" :> "M22759/92") @@ ("JA" :> "M25038/1") @@
    ("JF" :> "M25038/3") @@ ("MR" :> "M81381/7") @@ ("MS" :> "M81381/8") @@
    ("MT" :> "M81381/9") @@ ("MV" :> "M81381/10") @@ ("MW" :> "M81381/11") @@
    ("MY" :> "M81381/12") @@ ("NA" :> "M81381/13") @@ ("NB" :> "M81381/14") @@
    ("NE" :> "M81381/17") @@ ("NF" :> "M81381/18") @@ ("NG" :> "M81381/19") @@
    ("NH" :> "M81381/20") @@ ("NK" :> "M81381/21") @@ ("NL" :> "M81381/22")

M27500_SHIELD_CODES ==
    ("U" :> "None") @@ ("NY" :> "Nickel-plated copper (Round)") @@
    ("SW" :> "Silver-plated copper (Round)") @@ ("TV" :> "Tin-plated copper (Round)") @@
    ("CR" :> "Heavy Nickel-plated copper (Round)") @@ ("FZ" :> "Stainless steel (Round)") @@
    ("PL" :> "Ni-plated high-strength Cu alloy (Round)") @@
    ("MK" :> "Ag-plated high-strength Cu alloy (Round)") @@
    ("#" :> "Ni-plated copper (Flat)") @@ ("GA" :> "Ag-plated copper (Flat)") @@
    ("JD" :> "Tin-plated copper (Flat)") @@
    ("EX" :> "Ni-plated high-strength Cu alloy (Flat)") @@
    ("HB" :> "Ag-plated high-strength Cu alloy (Flat)")

M27500_JACKET_CODES ==
    ("00" :> "None") @@ ("50" :> "None") @@
    ("15" :> "ETFE, extruded, clear") @@ ("65" :> "ETFE, extruded, clear (Double)") @@
    ("14" :> "ETFE, extruded, white") @@ ("64" :> "ETFE, extruded, white (Double)") @@
    ("05" :> "FEP, extruded, clear") @@ ("55" :> "FEP, extruded, clear (Double)") @@
    ("09" :> "FEP, extruded, white") @@ ("59" :> "FEP, extruded, white (Double)") @@
    ("02" :> "Nylon, extruded, clear") @@ ("52" :> "Nylon, extruded, clear (Double)") @@
    ("21" :> "PFA, extruded, clear") @@ ("71" :> "PFA, extruded, clear (Double)") @@
    ("20" :> "PFA, extruded, white") @@ ("70" :> "PFA, extruded, white (Double)") @@
    ("11" :> "Natural polyimide / clear FEP tape") @@
    ("61" :> "Natural polyimide / clear FEP tape (Double)") @@
    ("12" :> "Natural polyimide / FEP tape") @@
    ("62" :> "Natural polyimide / FEP tape (Double)") @@
    ("06" :> "PTFE, taped, white") @@ ("56" :> "PTFE, taped, white (Double)") @@
    ("24" :> "PTFE/Polyimide tape (Outer PTFE tape)") @@
    ("74" :> "PTFE/Polyimide tape (Double)") @@
    ("07" :> "PTFE-coated glass braid") @@ ("57" :> "PTFE-coated glass braid (Double)") @@
    ("01" :> "PVC, extruded, white") @@ ("51" :> "PVC, extruded, white (Double)")

\* dict.get(key, default)
Lookup(table, key, default) == IF key \in DOMAIN table THEN table[key] ELSE default

\* f"Code {value}", as its two pieces.
CodeLiteral(value) == <<"Code ", value>>

\* Line 275: the component wire specification of a type code.
ComponentSpec(part_type) == Lookup(M27500_COMPONENT_CODES, part_type, "UNKNOWN")

\* Lines 291-292: the description of a jacket or shield code; a description
\* is a sequence of pieces, a table string being one piece.
Describe(table, code) ==
    IF code \in DOMAIN table THEN <<table[code]>> ELSE CodeLiteral(code)

\* Line 294
IsShielded(code) == code \notin {"U", "u"}

\* round(x, 3) of a float x >= 0 given as a fraction: the nearest multiple of
\* 1/1000, the even one of two equally near.
Round3(x) ==
    LET below == (x[1] * 1000) \div x[2]
        twice == 2 * ((x[1] * 1000) % x[2])
        up    == twice > x[2] \/ (twice = x[2] /\ below % 2 = 1)
    IN  Rat(IF up THEN below + 1 ELSE below, 1000)

\* (a - b) / 2 of two fractions, and whether it is positive.
HalfDifference(a, b) == Rat(a[1] * b[2] - b[1] * a[2], 2 * a[2] * b[2])

\* str.lower() on the pieces of a part number: digits and "-" are unchanged.
Lower(t) ==
    CASE t = "M27500-" -> "m27500-" [] t = "C" -> "c" [] t = "N" -> "n"
      [] t = "U" -> "u" [] t = "X" -> "x"
      [] t = "SA" -> "sa" [] t = "TA" -> "ta" [] t = "WB" -> "wb" [] t = "ZZ" -> "zz"
      [] t = "SA AND TA" -> "sa and ta" [] OTHER -> t

\* Lines 281-288
Cores27500(awg_size, cond_count, comp_mil_spec) ==
    [i \in 1..cond_count |->
        [CoreId |-> IntToChars(i),
         Gauge |-> awg_size,
         ConductorMaterial |-> <<"Plated Copper (from ", comp_mil_spec, ")">>,
         InsulationThickness |-> Rat(1, 10),
         ConductorDiameter |-> Rat(5, 10),
         InsulationColor |-> <<"Code ">> \o IntToChars(i) \o <<" (M27500)">>]]

\* Lines 268-322: the record of one normalized row.
Record27500(row) ==
    LET full_pn       == row["Full Part Number Base"]
        part_type     == row["M27500 Type Code"]
        awg_size      == row["AWG Size"]
        cond_count    == row["Conductor Count"]
        comp_mil_spec == ComponentSpec(part_type)
        inferred_shield_code == row["_Shield_Material_Code"]
        inferred_jacket_code == row["_Jacket_Material_Code"]
        is_shielded   == IsShielded(inferred_shield_code)
        specified_od  == row["Jacket Diameter"].metric
        shield_od     == row["Shield Diameter"].metric
        jacket_thickness_est == HalfDifference(specified_od, shield_od)
    IN  ("CableId" :> <<"m27500-">> \o
            [k \in DOMAIN full_pn |-> Lower(IF full_pn[k] = "/" THEN "-" ELSE full_pn[k])]) @@
        ("PartNumber" :> full_pn) @@
        ("Manufacturer" :> "Thermax (Implied)") @@
        ("Name" :> <<"MIL-DTL-27500 ">> \o IntToChars(cond_count) \o <<"C ">> \o awg_size
                   \o <<"AWG Cable Type ", part_type>>) @@
        ("Type" :> 2) @@
        ("Cores" :> Cores27500(awg_size, cond_count, comp_mil_spec)) @@
        ("JacketThickness" :> IF jacket_thickness_est[1] > 0
                              THEN Round3(jacket_thickness_est) ELSE Zero) @@
        ("JacketColor" :> "White/Clear (Code dependent)") @@
        ("JacketMaterial" :> Describe(M27500_JACKET_CODES, inferred_jacket_code)) @@
        ("HasShield" :> is_shielded) @@
        ("ShieldType" :> IF is_shielded THEN 1 ELSE 0) @@
        ("ShieldMaterial" :> Describe(M27500_SHIELD_CODES, inferred_shield_code)) @@
        ("ShieldThickness" :> Zero) @@
        ("ShieldCoverage" :> 90) @@
        ("HasDrainWire" :> FALSE) @@
        ("DrainWireDiameter" :> Zero) @@
        ("IsFiller" :> FALSE) @@
        ("SpecifiedOuterDiameter" :> Round3(specified_od)) @@
        ("Description" :> <<"MIL-DTL-27500 Cable: ">> \o IntToChars(cond_count)
                          \o <<" conductors of ", comp_mil_spec, " wire, Stranding ">>
                          \o row["Stranding"] \o <<".">>) @@
        ("Weight (kg/km)" :> Round3(row["Weight"].metric))

\* Lines 261-326
transform_to_core_format_27500(rows) ==
    [k \in DOMAIN rows |-> Record27500(rows[k])]

\* main, lines 432-441: after the last selected file the collected rows, if
\* any, are transformed and written.
Transform27500 ==
    /\ spc = "idle"
    /\ all_structured_data # <<>>
    /\ spc' = "done"
    /\ final_data' = transform_to_core_format_27500(all_structured_data)
    /\ UNCHANGED <<docNo, nMatches, text, current_context, results, origin,
                   all_structured_data>>
    /\ UNCHANGED <<mergeVars, unitVars, lappVars, asmVars, hookVars>>

(***************************************************************************)
(*        LAPPRegex.py: normalize_cable_properties                         *)
(*                                                                         *)
(* A text is a sequence of tokens: a digit, a blank, "/", or a word        *)
(* ("AWG", "KCMIL", "pr", "pair", "x", "c").  The patterns that read the   *)
(* text ignore case (re.IGNORECASE, or the class [cC]), so a word stands   *)
(* for itself in either case.  An integer value is [type |-> "int", ...],  *)
(* a string value [type |-> "str", ...] with its tokens.                   *)
(***************************************************************************)

MaxTextLen == 4

STYLE_ETHERNET == "Ethernet/Industrial Style"
STYLE_PROFIBUS == "Profibus/General Style"
STYLE_DEVICENET == "DeviceNet Style"
STYLE_OLFLEX == "OLFLEX(R) Power & Control Style"

PyInt(n) == [type |-> "int", value |-> n]
PyStr(s) == [type |-> "str", value |-> s]
NA == PyStr(<<"N/A">>)

\* The token at position i, "" past the end.
At(s, i) == IF i \in DOMAIN s THEN s[i] ELSE ""

\* The position after the longest run of tokens of class that starts at i.
Skip(s, i, class) == i + RunLength(s, i, class)

\* The least element of a non-empty set of positions (re.search returns the
\* leftmost match).
Leftmost(S) == CHOOSE i \in S : \A j \in S : i <= j

NoMatch == [matched |-> FALSE, group |-> <<>>]

\* (\d{1,2}(?:/\d{1,2})?\s*AWG|\d+\s*KCMIL): the positions a match that
\* starts at i ends at.
AwgAlternativeEnds(s, i) ==
    {k \in DOMAIN s : \E d1 \in 1..2, d2 \in 0..2 :
        /\ \A n \in i..(i + d1 - 1) : At(s, n) \in Digits
        /\ IF d2 = 0 THEN TRUE
           ELSE /\ At(s, i + d1) = "/"
                /\ \A n \in (i + d1 + 1)..(i + d1 + d2) : At(s, n) \in Digits
        /\ k = Skip(s, i + d1 + (IF d2 = 0 THEN 0 ELSE d2 + 1), {" "})
        /\ s[k] = "AWG"}

KcmilAlternativeEnds(s, i) ==
    {k \in DOMAIN s :
        /\ s[i] \in Digits
        /\ k = Skip(s, Skip(s, i, Digits), {" "})
        /\ s[k] = "KCMIL"}

match_awg(s) ==
    LET ends(i) == AwgAlternativeEnds(s, i) \cup KcmilAlternativeEnds(s, i)
        starts  == {i \in DOMAIN s : ends(i) # {}}
    IN  IF starts = {} THEN NoMatch
        ELSE LET i == Leftmost(starts)
             IN  [matched |-> TRUE, group |-> SubSeq(s, i, Leftmost(ends(i)))]

\* (\d{1,2})\s*AWG\s*/\s*pr
match_pair_awg(s) ==
    LET digits(i) == {d \in 1..2 :
            /\ \A n \in i..(i + d - 1) : At(s, n) \in Digits
            /\ LET a == Skip(s, i + d, {" "})
                   b == Skip(s, a + 1, {" "})
                   c == Skip(s, b + 1, {" "})
               IN  At(s, a) = "AWG" /\ At(s, b) = "/" /\ At(s, c) = "pr"}
        starts == {i \in DOMAIN s : digits(i) # {}}
    IN  IF starts = {} THEN NoMatch
        ELSE LET i == Leftmost(starts)
             IN  [matched |-> TRUE,
                  group |-> SubSeq(s, i, i + Leftmost(digits(i)) - 1)]

\* (\d+)\s*(?:pr|pair|x\s*\d+x)
PairingTail(s, j) ==
    \/ At(s, j) \in {"pr", "pair"}
    \/ /\ At(s, j) = "x"
       /\ LET k == Skip(s, j + 1, {" "})
          IN  RunLength(s, k, Digits) > 0 /\ At(s, Skip(s, k, Digits)) = "x"

match_pair(s) ==
    LET starts == {i \in DOMAIN s :
            /\ s[i] \in Digits
            /\ PairingTail(s, Skip(s, Skip(s, i, Digits), {" "}))}
    IN  IF starts = {} THEN NoMatch
        ELSE LET i == Leftmost(starts)
             IN  [matched |-> TRUE, group |-> SubSeq(s, i, Skip(s, i, Digits) - 1)]

\* (\d+)[cC](?:\/[gG])?
match_cond(s) ==
    LET starts == {i \in DOMAIN s :
            s[i] \in Digits /\ At(s, Skip(s, i, Digits)) = "c"}
    IN  IF starts = {} THEN NoMatch
        ELSE LET i == Leftmost(starts)
             IN  [matched |-> TRUE, group |-> SubSeq(s, i, Skip(s, i, Digits) - 1)]

\* row_data[key] = value
DictSet(d, key, value) == (key :> value) @@ d

\* str.upper() on a token.
Upper(t) ==
    CASE t = "pr" -> "PR" [] t = "pair" -> "PAIR" [] t = "x" -> "X"
      [] t = "c" -> "C" [] OTHER -> t

Without(s, word) == SelectSeq(s, LAMBDA t : t # word)

\* row_data.get('Construction') or row_data.get('Conductor Description');
\* None and '' are both falsy and are the empty text here.
parse_field(row_data) ==
    IF "Construction" \in DOMAIN row_data /\ row_data["Construction"] # <<>>
    THEN row_data["Construction"]
    ELSE IF "Conductor Description" \in DOMAIN row_data
         THEN row_data["Conductor Description"]
         ELSE <<>>

\* Mutant: the fixed layout is applied to the rows of every style.
IsDeviceNet_any(style_name) == TRUE

\* 'DeviceNet' in style_name
IsDeviceNet(style_name) == style_name = STYLE_DEVICENET

\* Mutant: the conductor-count notation is applied over a pairing notation.
UseCond_ignoring_pair(cond, pair) == cond.matched

\* if match_cond and not match_pair
UseCond(cond, pair) == cond.matched /\ ~ pair.matched

\* The ÖLFLEX branch: the count column holds the number of conductors.
NormalizeOlflex(row_data) ==
    LET count_field ==
            strip(Without(IF "Conductor Count (incl. ground)" \in DOMAIN row_data
                          THEN row_data["Conductor Count (incl. ground)"]
                          ELSE <<"N/A">>, "KCMIL"))
    IN  IF IsDigitString(count_field)
        THEN LET total == IntOf(count_field)
                 r1 == DictSet(row_data, "Total Conductors", PyInt(total))
             IN  IF total > 1
                 THEN DictSet(r1, "Pairing Configuration",
                              PyStr(IntToChars(total) \o <<"C">>))
                 ELSE r1
        ELSE row_data

\* The branch of the styles whose construction or description text is parsed.
NormalizeText(row_data, style_name) ==
    LET field == parse_field(row_data)
        awg   == match_awg(field)
        pawg  == match_pair_awg(field)
        pair  == match_pair(field)
        cond  == match_cond(field)
        num_pairs == IntOf(Without(pair.group, "x"))
        r1 == IF awg.matched
              THEN DictSet(row_data, "AWG/Size", PyStr(strip(awg.group)))
              ELSE row_data
        r2 == IF pawg.matched
              THEN DictSet(r1, "AWG/Size", PyStr(pawg.group \o <<" ", "AWG">>))
              ELSE r1
        r3 == IF pair.matched
              THEN DictSet(DictSet(r2, "Pairing Configuration",
                                   PyStr(IntToChars(num_pairs) \o <<" ", "pr">>)),
                           "Total Conductors", PyInt(num_pairs * 2))
              ELSE r2
        r4 == IF UseCond(cond, pair)
              THEN DictSet(DictSet(r3, "Pairing Configuration",
                                   PyStr(cond.group \o <<"C">>)),
                           "Total Conductors", PyInt(IntOf(cond.group)))
              ELSE r3
    IN  IF field = <<>> THEN row_data
        ELSE IF IsDeviceNet(style_name)
             THEN DictSet(DictSet(r4, "Pairing Configuration",
                                  PyStr(<<"2", "P", " ", "+", " ", "1", "T">>)),
                          "Total Conductors", PyInt(5))
             ELSE r4

\* Final cleanup on AWG/Size.
CleanAwg(row_data) ==
    LET size == row_data["AWG/Size"]
        upper == [k \in DOMAIN size.value |-> Upper(size.value[k])]
    IN  IF size.type = "str" /\ \E k \in DOMAIN upper : upper[k] = "AWG"
        THEN DictSet(row_data, "AWG/Size", PyStr(strip(Without(upper, "AWG"))))
        ELSE row_data

normalize_cable_properties(row_data, style_name) ==
    LET r0 == DictSet(DictSet(DictSet(row_data, "AWG/Size", NA),
                              "Pairing Configuration", NA),
                      "Total Conductors", NA)
    IN  CleanAwg(IF style_name = STYLE_OLFLEX
                 THEN NormalizeOlflex(r0)
                 ELSE NormalizeText(r0, style_name))

\* clean_match_row on one field: strip, then runs of blanks become one.
clean_text(item) == CollapseBlanks(strip(item))

\* The characters the ETHERLINE pattern admits in the Construction column
\* ([\dAWG/pr\s]+), and those of a free-text description column (.+?).
ConstructionTokens == {"0", "2", " ", "/", "AWG", "pr"}
DescriptionTokens == ConstructionTokens \cup {"KCMIL", "pair", "x", "c"}

\* The count column of the ÖLFLEX pattern: (\d{1,3}|KCMIL).
CountFields == {<<"KCMIL">>} \cup (SeqsUpTo({"0", "1", "2"}, 3) \ {<<>>})

\* The texts of at most MaxTextLen tokens as clean_match_row leaves them.
CleanTexts(tokens) ==
    {t \in SeqsUpTo(tokens, MaxTextLen) : clean_text(t) = t}

\* The rows extract_datasheet_info hands to normalize_cable_properties.
MatchedRows(style_name) ==
    CASE style_name = STYLE_ETHERNET ->
            {"Construction" :> t : t \in CleanTexts(ConstructionTokens)}
      [] style_name \in {STYLE_PROFIBUS, STYLE_DEVICENET} ->
            {"Conductor Description" :> t : t \in CleanTexts(DescriptionTokens)}
      [] style_name = STYLE_OLFLEX ->
            {"Conductor Count (incl. ground)" :> t : t \in CountFields}

NoRow == [style_name |-> "none", row_data |-> <<>>]

LappInit ==
    /\ \E style_name \in {STYLE_ETHERNET, STYLE_PROFIBUS, STYLE_DEVICENET, STYLE_OLFLEX} :
          \E row_data \in MatchedRows(style_name) :
              lappRow = [style_name |-> style_name, row_data |-> row_data]
    /\ lappNorm = [kind |-> "none"]

NormalizeRow ==
    /\ lappNorm.kind = "none"
    /\ lappRow.style_name # "none"
    /\ lappNorm' = [kind |-> "row",
                    row |-> normalize_cable_properties(lappRow.row_data,
                                                       lappRow.style_name)]
    /\ UNCHANGED lappRow
    /\ UNCHANGED <<mergeVars, scanVars, unitVars, asmVars, hookVars>>

(***************************************************************************)
(*                   LAPPRegex.py: transform_to_core_format                *)
(*                                                                         *)
(* Lengths are whole thousandths of a millimetre, except                  *)
(* SpecifiedOuterDiameter, the exact value of the float as a fraction.     *)
(***************************************************************************)

MaxBatch == 3

\* Lines 11-15, in thousandths of a millimetre.
AWG_TO_DIAMETER_MM ==
    ("10" :> 2588) @@ ("12" :> 2052) @@ ("14" :> 1628) @@ ("16" :> 1291)
    @@ ("18" :> 1024) @@ ("20" :> 812) @@ ("22" :> 644) @@ ("24" :> 511)
    @@ ("26" :> 405) @@ ("28" :> 321) @@ ("30" :> 255) @@ ("KCMIL" :> 5000)

\* Lines 18-22, in thousandths of a millimetre.
AWG_TO_INSULATION_MM ==
    ("10" :> 700) @@ ("12" :> 600) @@ ("14" :> 500) @@ ("16" :> 450)
    @@ ("18" :> 400) @@ ("20" :> 350) @@ ("22" :> 250) @@ ("24" :> 200)
    @@ ("26" :> 180) @@ ("28" :> 150) @@ ("30" :> 150) @@ ("KCMIL" :> 1000)

\* Lines 26-29
COLOR_4PAIR ==
    << <<"Blue", "White/Blue">>, <<"Orange", "White/Orange">>,
       <<"Green", "White/Green">>, <<"Brown", "White/Brown">> >>

\* Lines 31-35
COLOR_MULTICONDUCTOR ==
    << "Black", "White", "Red", "Green", "Yellow", "Brown", "Blue", "Gray",
       "Pink", "Violet", "Orange", "Turquoise", "Black/White", "Red/White",
       "Blue/White", "Black/Red", "White/Red", "Green/Red" >>

\* row.get(key, default)
Get(row, key, default) == IF key \in DOMAIN row THEN row[key] ELSE default

\* str.lower() on the words of the colour tables, of the approvals and of
\* the part numbers; digits and marks are unchanged.
LowerWord(t) ==
    CASE t = "Blue" -> "blue" [] t = "White/Blue" -> "white/blue"
      [] t = "Orange" -> "orange" [] t = "White/Orange" -> "white/orange"
      [] t = "Green" -> "green" [] t = "White/Green" -> "white/green"
      [] t = "Brown" -> "brown" [] t = "White/Brown" -> "white/brown"
      [] t = "Black" -> "black" [] t = "White" -> "white" [] t = "Red" -> "red"
      [] t = "Yellow" -> "yellow" [] t = "Gray" -> "gray" [] t = "Pink" -> "pink"
      [] t = "Violet" -> "violet" [] t = "Turquoise" -> "turquoise"
      [] t = "Black/White" -> "black/white" [] t = "Red/White" -> "red/white"
      [] t = "Blue/White" -> "blue/white" [] t = "Black/Red" -> "black/red"
      [] t = "White/Red" -> "white/red" [] t = "Green/Red" -> "green/red"
      [] t = "Drain" -> "drain" [] t = "Braid" -> "braid" [] t = "UL" -> "ul"
      [] t = "C" -> "c" [] t = "Y" -> "y"
      [] OTHER -> t

\* str.upper() on the pieces of a part number.
UpperPiece(t) == CASE t = "c" -> "C" [] t = "y" -> "Y" [] OTHER -> t

\* style.lower().split('/')[0].replace('®', '')
StyleIdPrefix(style) ==
    CASE style = STYLE_ETHERNET -> "ethernet"
      [] style = STYLE_PROFIBUS -> "profibus"
      [] style = STYLE_DEVICENET -> "devicenet style"
      [] style = STYLE_OLFLEX -> "olflex power & control style"

\* style.split(' ')[0]
StyleFirstWord(style) ==
    CASE style = STYLE_ETHERNET -> "Ethernet/Industrial"
      [] style = STYLE_PROFIBUS -> "Profibus/General"
      [] style = STYLE_DEVICENET -> "DeviceNet"
      [] style = STYLE_OLFLEX -> "OLFLEX(R)"

\* part_number = row.get('Part Number', 'UNKNOWN').replace('*', '')
part_number_of(row) == Without(Get(row, "Part Number", <<"UNKNOWN">>), "*")

\* The part of a text before its first '/'; the sentinel N/A is one token
\* here and splits into N and A.
BeforeSlash(s) ==
    IF s = <<"N/A">> THEN <<"N">>
    ELSE IF \E k \in DOMAIN s : s[k] = "/"
         THEN SubSeq(s, 1, (CHOOSE k \in DOMAIN s :
                               s[k] = "/" /\ \A j \in 1..(k - 1) : s[j] # "/") - 1)
         ELSE s

\* Line 171: str(row.get('AWG/Size', '22')).replace(' ', '').split('/')[0].strip()
base_awg_str_of(row) ==
    strip(BeforeSlash(Without(Get(row, "AWG/Size", PyStr(<<"2", "2">>)).value, " ")))

\* Line 196
base_awg_of(row) ==
    LET base_awg_str == base_awg_str_of(row)
    IN  IF IsDigitString(base_awg_str) \/ base_awg_str = <<"KCMIL">>
        THEN Join(base_awg_str) ELSE "22"

\* get_dim_mm, and dict.get(base_awg, dim_map['22'])
get_dim_mm(awg, dim_map) == IF awg \in DOMAIN dim_map THEN dim_map[awg] ELSE dim_map["22"]

Core(i, awg, color) ==
    [CoreId |-> IntToChars(i),
     ConductorDiameter |-> get_dim_mm(awg, AWG_TO_DIAMETER_MM),
     InsulationThickness |-> get_dim_mm(awg, AWG_TO_INSULATION_MM),
     InsulationColor |-> color,
     Gauge |-> awg,
     ConductorMaterial |-> "Copper"]

\* Lines 178-182: the fixed layout of the DeviceNet style.
core_specs ==
    << <<"22", COLOR_4PAIR[1][1]>>, <<"22", COLOR_4PAIR[1][2]>>,
       <<"18", COLOR_MULTICONDUCTOR[3]>>, <<"18", COLOR_MULTICONDUCTOR[1]>>,
       <<"22", "Drain">> >>

\* s[:n]
Prefix(s, n) == SubSeq(s, 1, IF n < Len(s) THEN n ELSE Len(s))

\* Mutant: the second colour of each pair comes first.
FlatPairColors_second_first ==
    [k \in 1..(2 * Len(COLOR_4PAIR)) |-> COLOR_4PAIR[(k + 1) \div 2][1 + (k % 2)]]

\* [c for pair in COLOR_4PAIR for c in pair]
FlatPairColors ==
    [k \in 1..(2 * Len(COLOR_4PAIR)) |-> COLOR_4PAIR[(k + 1) \div 2][2 - (k % 2)]]

\* Line 200: the pairing ends with 'pr' and the count is even.
UsePairColors(row, total_conductors) ==
    LET pairing == Get(row, "Pairing Configuration", PyStr(<<>>)).value
    IN  /\ pairing # <<>> /\ pairing[Len(pairing)] = "pr"
        /\ total_conductors % 2 = 0

\* Lines 174-215
cores_data_of(row, style, total_conductors) ==
    IF style = STYLE_DEVICENET
    THEN LET specs == Prefix(core_specs, total_conductors)
         IN  [i \in DOMAIN specs |-> Core(i, specs[i][1], specs[i][2])]
    ELSE LET colors == IF UsePairColors(row, total_conductors)
                       THEN FlatPairColors ELSE COLOR_MULTICONDUCTOR
         IN  [i \in 1..total_conductors |->
                Core(i, base_awg_of(row), colors[((i - 1) % Len(colors)) + 1])]

\* Lines 218-228: the raw and the cleaned text of the outer diameter.
FirstWord(s) ==
    LET t == strip(s) IN SubSeq(t, 1, RunLength(t, 1, {c \in {t[k] : k \in DOMAIN t} : c # " "}))

HasTwoWords(s) == \E k \in DOMAIN strip(s) : strip(s)[k] = " "

raw_od_mm_of(row, style) ==
    LET raw == Get(row, "Nominal OD (mm)", <<"0">>)
    IN  IF style = STYLE_OLFLEX /\ HasTwoWords(raw) THEN FirstWord(raw) ELSE raw

cleaned_od_mm_of(row, style) == Without(raw_od_mm_of(row, style), " ")

\* Line 242
has_shield_of(row) ==
    \/ \E k \in DOMAIN part_number_of(row) : UpperPiece(part_number_of(row)[k]) = "C"
    \/ \E k \in DOMAIN Get(row, "Approvals", <<>>) :
          LowerWord(Get(row, "Approvals", <<>>)[k]) = "braid"

\* Mutant: no allowance is made for a shield.
shield_thickness_of_none(has_shield) == 0

\* Line 243
shield_thickness_of(has_shield) == IF has_shield THEN 50 ELSE 0

MaxOf(S) == CHOOSE x \in S : \A y \in S : y <= x

\* Lines 245-255: the largest core, and 0 for no cores, where the bundle
\* diameter is 0.
max_core_od_of(cores_data) ==
    IF cores_data = <<>> THEN 0
    ELSE MaxOf({cores_data[i].ConductorDiameter + 2 * cores_data[i].InsulationThickness :
                  i \in DOMAIN cores_data})

\* Mutant: the square-root rule starts above 5 conductors.
UsesDoubleRule_upto5(total_conductors) == total_conductors <= 5

\* Line 248: if total_conductors <= 4
UsesDoubleRule(total_conductors) == total_conductors <= 4

\* The integer part of the square root of n.
Isqrt(n) == CHOOSE f \in 0..n : f * f <= n /\ n < (f + 1) * (f + 1)

\* m * sqrt(n) <= b and m * sqrt(n) >= b, decided on the squares
\* (m * m * n is below 2^31 for the core sizes and counts of the tables, and
\* 46340 is the largest number whose square is).
RootAtMost(m, n, b)  == b >= 0 /\ (b > 46340 \/ m * m * n <= b * b)
RootAtLeast(m, n, b) == b <= 0 \/ (b <= 46340 /\ m * m * n >= b * b)

\* Line 259, in thousandths of a millimetre.
min_jacket_thickness == 500

\* Mutant: no minimum is applied.
AtLeastMinimum_not(r) == r

\* Line 261: max(min_jacket_thickness, ...)
AtLeastMinimum(r) == IF r < min_jacket_thickness THEN min_jacket_thickness ELSE r

\* Lines 245-261 and round(jacket_thickness_mm, 3): the thousandths that
\* round() can return for max(0.5, (nominal_od - inner_bundle_diam)/2 -
\* shield_thickness).  od, m and st are thousandths; with
\* a == 2 od - 2 m - 4 st the exact thickness is (a - 2 m)/4 under the
\* doubling rule and (a - m sqrt(n))/4 under the square-root rule.  Where
\* the exact value lies midway between two thousandths, the float that is
\* rounded lies on either side of it and both neighbours are kept.
JacketThicknessValues(od, m, n, st) ==
    LET a  == 2 * od - 2 * m - 4 * st
        f  == Isqrt(n)
        lo == ((a - m * (f + 1)) \div 4) - 1
        hi == ((a - m * f) \div 4) + 1
        rounded ==
            IF UsesDoubleRule(n)
            THEN {r \in ((a - 2 * m) \div 4 - 1)..((a - 2 * m) \div 4 + 1) :
                     a - 2 * m - 4 * r <= 2 /\ a - 2 * m - 4 * r >= -2}
            ELSE {r \in lo..hi :
                     RootAtMost(m, n, a - 4 * r + 2) /\ RootAtLeast(m, n, a - 4 * r - 2)}
    IN  {AtLeastMinimum(r) : r \in rounded}

\* Mutant: any integer count is accepted.
HasConductors_any_integer(row) ==
    /\ "Total Conductors" \in DOMAIN row
    /\ row["Total Conductors"].type = "int"

\* isinstance(total_conductors, int) and total_conductors >= 1 (line 167).
HasConductors(row) ==
    /\ "Total Conductors" \in DOMAIN row
    /\ row["Total Conductors"].type = "int"
    /\ row["Total Conductors"].value >= 1

\* The thousandths of a diameter of at most three decimals.
Thousandths(x) == (x[1] * 1000) \div x[2]

\* Lines 264-265
description_of(row, total_conductors) ==
    LET described == IF parse_field(row) # <<>> THEN parse_field(row)
                ELSE IntToChars(total_conductors) \o <<" core cable">>
        jacket == Get(row, "Jacket Material", <<>>)
    IN  IF jacket # <<>> THEN described \o <<", ">> \o jacket \o <<" jacket">> ELSE described

\* Mutant: the colour is compared as written.
IsDrain_as_written(color) == color = "drain"

\* Line 281: "drain" in [c['InsulationColor'].lower() for c in cores_data]
IsDrain(color) == LowerWord(color) = "drain"

\* Lines 267-285: the record of a row, with the JacketThickness that
\* round() returned.
LappRecord(row, nominal_od_mm, jacket_thickness) ==
    LET style == Get(row, "_Matched_Style", "N/A")
        total_conductors == row["Total Conductors"].value
        part_number == part_number_of(row)
        cores_data == cores_data_of(row, style, total_conductors)
        has_shield == has_shield_of(row)
        has_drain == \E i \in DOMAIN cores_data : IsDrain(cores_data[i].InsulationColor)
    IN  [CableId |-> <<StyleIdPrefix(style), "-">>
                        \o [k \in DOMAIN part_number |-> LowerWord(part_number[k])],
         PartNumber |-> part_number,
         Manufacturer |-> "LAPP",
         Name |-> <<StyleFirstWord(style), " ">>
                     \o Get(row, "Pairing Configuration", PyStr(<<>>)).value \o <<" ">>
                     \o Get(row, "AWG/Size", PyStr(<<>>)).value \o <<" ">>
                     \o Get(row, "Jacket Material", <<>>),
         Type |-> 4,
         Cores |-> cores_data,
         JacketThickness |-> jacket_thickness,
         JacketColor |-> Get(row, "Jacket Color", <<"Gray">>),
         HasShield |-> has_shield,
         ShieldType |-> IF has_shield THEN 1 ELSE 0,
         ShieldThickness |-> shield_thickness_of(has_shield),
         ShieldCoverage |-> IF has_shield THEN 85 ELSE 0,
         HasDrainWire |-> has_drain,
         DrainWireDiameter |-> IF has_drain
                               THEN Get(AWG_TO_DIAMETER_MM, "22", 0) ELSE 0,
         IsFiller |-> FALSE,
         SpecifiedOuterDiameter |-> nominal_od_mm,
         Description |-> description_of(row, total_conductors)]

\* The fields of the matched rows that the normalizer and the assembler read.
\* Part numbers: digits are one piece, then the letters and marks.
AsmPartNumbers(style) ==
    CASE style = STYLE_ETHERNET -> {<<"2170000">>, <<"2170000", "c">>}
      [] style = STYLE_PROFIBUS -> {<<"2170220">>, <<"2170220", "*">>}
      [] style = STYLE_DEVICENET -> {<<"2170340">>}
      [] style = STYLE_OLFLEX -> {<<"1600">>, <<"1600", "C", "Y">>, <<"1600", "*">>}

\* The construction, description or count column.
AsmTexts(style) ==
    CASE style = STYLE_ETHERNET ->
            { <<"2", "pr", " ", "2", "0", "AWG">>, <<"2", "0", "AWG", "/", "pr">>,
              <<"0", "pr">>, <<"5", "pr", " ", "8", "AWG">> }
      [] style = STYLE_PROFIBUS ->
            { <<"2", "c">>, <<"2", "2", "c", " ", "2", "0", "AWG">>, <<"0", "c">>,
              <<"2", "c", " ", "Braid">>, <<"2", "c", " ", "2", " ", "KCMIL">> }
      [] style = STYLE_DEVICENET -> { <<"2", "pr">>, <<"2", "pr", " ", "Braid">> }
      [] style = STYLE_OLFLEX ->
            { <<"KCMIL">>, <<"0">>, <<"1">>, <<"4">>, <<"5">>, <<"9">>, <<"1", "2">> }

\* The Approvals column, which only two patterns have.
AsmApprovals(style) ==
    IF style \in {STYLE_ETHERNET, STYLE_PROFIBUS}
    THEN {<<"UL">>, <<"UL", " ", "Braid">>} ELSE {<<>>}

\* The Nominal OD (mm) column: ([0-9\.]+), and ([\d\.\s]+) for DeviceNet.
AsmOuterDiameters(style) ==
    { <<"7", ".", "1">>, <<"7", ".", "1", "2", "5">>, <<"1">>, <<"0", ".", "0">>,
      <<"0">>, <<"7", ".", "1", ".", "2">> }
    \cup (IF style = STYLE_DEVICENET THEN {<<"7", ".", "1", " ", "2">>} ELSE {})

TextColumn(style) ==
    CASE style = STYLE_ETHERNET -> "Construction"
      [] style \in {STYLE_PROFIBUS, STYLE_DEVICENET} -> "Conductor Description"
      [] style = STYLE_OLFLEX -> "Conductor Count (incl. ground)"

\* clean_match_row: dict(zip(headers, clean_items)) and _Matched_Style.
AsmMatchedRow(style, part, column, approvals, od) ==
    LET common == ("Part Number" :> part) @@ (TextColumn(style) :> column)
                  @@ ("Nominal OD (mm)" :> od) @@ ("_Matched_Style" :> style)
    IN  CASE style = STYLE_ETHERNET ->
                common @@ ("Jacket Material" :> <<"PVC">>)
                       @@ ("Jacket Color" :> <<"Green">>) @@ ("Approvals" :> approvals)
          [] style = STYLE_PROFIBUS ->
                common @@ ("Jacket Material" :> <<"PUR">>) @@ ("Approvals" :> approvals)
          [] style = STYLE_DEVICENET ->
                common @@ ("Jacket Material" :> <<"Not Specified">>)
          [] style = STYLE_OLFLEX -> common

Styles == {STYLE_ETHERNET, STYLE_PROFIBUS, STYLE_DEVICENET, STYLE_OLFLEX}

\* The rows extract_datasheet_info returns: each matched row, normalized.
AsmRows ==
    UNION { { normalize_cable_properties(AsmMatchedRow(style, part, column, approvals, od), style) :
                part \in AsmPartNumbers(style), column \in AsmTexts(style),
                approvals \in AsmApprovals(style), od \in AsmOuterDiameters(style) } :
            style \in Styles }

\* The rows the longer batches are made of: rows that are assembled and
\* rows of each kind that is skipped.
BatchRows ==
    { normalize_cable_properties(AsmMatchedRow(q[1], q[2], q[3], q[4], q[5]), q[1]) :
        q \in { <<STYLE_ETHERNET, <<"2170000">>, <<"2", "pr", " ", "2", "0", "AWG">>,
                  <<"UL">>, <<"7", ".", "1">> >>,
                <<STYLE_ETHERNET, <<"2170001">>, <<"2", "0", "AWG", "/", "pr">>,
                  <<"UL">>, <<"7", ".", "1">> >>,
                <<STYLE_PROFIBUS, <<"2170220">>, <<"2", "c">>,
                  <<"UL">>, <<"7", ".", "1", ".", "2">> >>,
                <<STYLE_PROFIBUS, <<"2170221">>, <<"2", "c">>,
                  <<"UL">>, <<"0", ".", "0">> >>,
                <<STYLE_DEVICENET, <<"2170340">>, <<"2", "pr">>, <<>>,
                  <<"7", ".", "1", " ", "2">> >>,
                <<STYLE_OLFLEX, <<"1600", "C", "Y">>, <<"5">>, <<>>, <<"7", ".", "1">> >>,
                <<STYLE_OLFLEX, <<"1601">>, <<"0">>, <<>>, <<"7", ".", "1">> >> } }

\* main: all_structured_data, the rows of the selected documents.
AsmInit ==
    /\ tpc = "loop"
    /\ \/ \E row \in AsmRows : normalized_data = <<row>>
       \/ \E k \in 2..MaxBatch : normalized_data \in [1..k -> BatchRows]
    /\ tPos = 1
    /\ final_output = <<>>
    /\ printed = <<>>
    /\ emitted_from = <<>>
    /\ geometry = <<>>

\* Mutant: the loop ends at the first row that is rejected.
AtEnd_or_rejected == tPos > Len(normalized_data) \/ tPos - 1 > Len(emitted_from)

\* The for loop of line 161 has no row left.
AtEnd == tPos > Len(normalized_data)

InLoop == tpc = "loop" /\ ~ AtEnd

style_of(row) == Get(row, "_Matched_Style", "N/A")

\* float(cleaned_od_mm)
nominal_od_mm_of(row) == PyFloat(cleaned_od_mm_of(row, style_of(row)))

NextRow ==
    /\ tPos' = tPos + 1
    /\ UNCHANGED <<tpc, normalized_data>>
    /\ UNCHANGED <<mergeVars, scanVars, unitVars, lappVars, hookVars>>

\* Lines 167-168: the row has no usable conductor count.
SkipNoConductors ==
    /\ InLoop
    /\ ~ HasConductors(normalized_data[tPos])
    /\ NextRow
    /\ UNCHANGED <<final_output, printed, emitted_from, geometry>>

\* Lines 230-234: the diameter is not a number; a warning is printed.
WarnUnparseableOD ==
    LET row == normalized_data[tPos]
    IN  /\ InLoop
        /\ HasConductors(row)
        /\ ~ nominal_od_mm_of(row).ok
        /\ printed' = Append(printed,
                             [raw_od_mm |-> raw_od_mm_of(row, style_of(row)),
                              cleaned_od_mm |-> cleaned_od_mm_of(row, style_of(row)),
                              part_number |-> part_number_of(row),
                              row |-> tPos])
        /\ NextRow
        /\ UNCHANGED <<final_output, emitted_from, geometry>>

\* Lines 237-238: the diameter is a number that is not positive.
SkipNonPositiveOD ==
    LET row == normalized_data[tPos]
    IN  /\ InLoop
        /\ HasConductors(row)
        /\ nominal_od_mm_of(row).ok
        /\ nominal_od_mm_of(row).value[1] <= 0
        /\ NextRow
        /\ UNCHANGED <<final_output, printed, emitted_from, geometry>>

\* Lines 242-285: the record of the row is appended.
EmitRecord ==
    LET row == normalized_data[tPos]
        total_conductors == row["Total Conductors"].value
        nominal_od_mm == nominal_od_mm_of(row).value
        cores_data == cores_data_of(row, style_of(row), total_conductors)
        max_core_od == max_core_od_of(cores_data)
    IN  /\ InLoop
        /\ HasConductors(row)
        /\ nominal_od_mm_of(row).ok
        /\ nominal_od_mm[1] > 0
        /\ \E jacket_thickness \in
                JacketThicknessValues(Thousandths(nominal_od_mm), max_core_od,
                                      total_conductors,
                                      shield_thickness_of(has_shield_of(row))) :
              final_output' = Append(final_output,
                                     LappRecord(row, nominal_od_mm, jacket_thickness))
        /\ emitted_from' = Append(emitted_from, tPos)
        /\ geometry' = Append(geometry,
                              [rule |-> IF UsesDoubleRule(total_conductors)
                                        THEN "double" ELSE "sqrt",
                               max_core_od |-> max_core_od])
        /\ NextRow
        /\ UNCHANGED printed

\* Line 287: return final_output
ReturnOutput ==
    /\ tpc = "loop"
    /\ AtEnd
    /\ tpc' = "done"
    /\ UNCHANGED <<normalized_data, tPos, final_output, printed, emitted_from, geometry>>
    /\ UNCHANGED <<mergeVars, scanVars, unitVars, lappVars, hookVars>>

(***************************************************************************)
(*                        generate_m22759.py                               *)
(***************************************************************************)

MaxGeneratorRuns == 2

\* Lines 7-578: the table of the script, reduced to two slash numbers and to
\* the gauge of each of their rows.
m22759_specs ==
    << [slash_num |-> "5", specs |-> << <<"8">>, <<"1", "0">> >>],
       [slash_num |-> "12", specs |-> << <<"2", "/", "0">> >>] >>

\* Lines 580-622, with the attributes the library is keyed and shaped by.
create_cable_entry(slash_num, gauge) ==
    [CableId |-> Join(<<"m22759-", slash_num, "-">>
                        \o [k \in DOMAIN gauge |-> IF gauge[k] = "/" THEN "-" ELSE gauge[k]]),
     PartNumber |-> Join(<<"M22759/", slash_num, "-">> \o gauge),
     Manufacturer |-> "MIL-SPEC",
     Type |-> 0,
     Cores |-> << [CoreId |-> "1", Gauge |-> Join(gauge), InsulationColor |-> "Natural"] >>,
     HasShield |-> FALSE]

\* Lines 625-645: the loops over the table; the list the script calls
\* all_cables.
generated_cables ==
    Flatten([s \in DOMAIN m22759_specs |->
                [k \in DOMAIN m22759_specs[s].specs |->
                    create_cable_entry(m22759_specs[s].slash_num, m22759_specs[s].specs[k])]])

\* Lines 650-660: one run of the script: the library file is read, the
\* generated entries are appended to its Cables and the file is written
\* back.  The file must exist: the merger has written it (mpc = "done").
GenerateM22759 ==
    /\ mpc = "done"
    /\ generator_runs < MaxGeneratorRuns
    /\ library' = [library EXCEPT !.Cables = @ \o generated_cables]
    /\ generator_runs' = generator_runs + 1
    /\ UNCHANGED <<mpc, mFile, cables, mPos, all_cables, cable_ids, skipped, added_printed,
                   inputs>>
    /\ UNCHANGED <<hpc, rows_22759, final_22759>>
    /\ UNCHANGED <<scanVars, unitVars, lappVars, asmVars>>

(***************************************************************************)
(*         MIL-DTL-22759Regex.py: transform_to_core_format                 *)
(***************************************************************************)

\* Lines 12-15
MIL_STD_104_COLORS ==
    ("0" :> "Black") @@ ("1" :> "Brown") @@ ("2" :> "Red") @@ ("3" :> "Orange")
    @@ ("4" :> "Yellow") @@ ("5" :> "Green") @@ ("6" :> "Blue") @@ ("7" :> "Violet")
    @@ ("8" :> "Gray") @@ ("9" :> "White")

\* The part numbers of the matched rows, (M22759/\d{1,2}-\d{1,2}[/-]\*?) and
\* (M22759/\d{1,2}-\d{1,2}-\*), one character a token but for the prefix.
PartNumbers22759 ==
    { <<"M22759", "/", "5", "-", "8", "-", "*">>,
      <<"M22759", "/", "1", "2", "-", "2", "0", "/">>,
      <<"M22759", "/", "2", "0", "-", "2", "0", "-", "*">> }

\* The Conductor Diameter and Insulation Diameter Maximum columns.
DiameterPairs22759 ==
    { << <<"0", ".", "1", "(", "2", ".", "5", ")">>, <<"0", ".", "2", "(", "5", ".", "1", ")">> >>,
      << <<"0", ".", "2", "(", "5", ".", "1", ")">>, <<"0", ".", "1", "(", "2", ".", "5", ")">> >> }

\* Lines 66-110: normalize_m22759_properties, with the fields the assembler
\* reads.  The part number starts with M22759, so the search for
\* MIL-W-22759/ or MIL-DTL-22759/ finds nothing.
normalize_m22759_properties(row_data) ==
    ("Part Number" :> row_data["Part Number"]) @@
    ("AWG Size" :> row_data["AWG Size"]) @@
    ("Stranding" :> row_data["Stranding"]) @@
    ("_Matched_Style" :> row_data["_Matched_Style"]) @@
    ("Conductor Diameter" :> parse_unit_pair_22759(row_data["Conductor Diameter"]).value) @@
    ("Insulation Diameter Maximum" :>
        parse_unit_pair_22759(row_data["Insulation Diameter Maximum"]).value) @@
    ("MIL Spec" :> "N/A")

\* extract_datasheet_info, lines 114-163: the rows of the two patterns.
Rows22759 ==
    { normalize_m22759_properties(
          ("Part Number" :> part) @@ ("AWG Size" :> <<"8">>) @@
          ("Stranding" :> <<"1", "9", "/", "3", "2">>) @@
          ("Conductor Diameter" :> d[1]) @@ ("Insulation Diameter Maximum" :> d[2]) @@
          ("_Matched_Style" :> IF part[3] = "2" /\ part[4] = "0"
                               THEN "M22759 High-Strength" ELSE "M22759 Standard")) :
        part \in PartNumbers22759, d \in DiameterPairs22759 }

\* Lines 186-192: re.search(r'-(\d{1,2})$', part_number) and the colour of
\* the first digit found.
base_color_of(part_number) ==
    LET n == Len(part_number)
        one == n >= 2 /\ part_number[n] \in Digits /\ part_number[n - 1] = "-"
        two == n >= 3 /\ part_number[n] \in Digits /\ part_number[n - 1] \in Digits
                  /\ part_number[n - 2] = "-"
    IN  IF two THEN MIL_STD_104_COLORS[part_number[n - 1]]
        ELSE IF one THEN MIL_STD_104_COLORS[part_number[n]]
        ELSE "White"

\* row['_Matched_Style'].replace('M22759 ', '')
StyleWithoutPrefix(style) ==
    CASE style = "M22759 Standard" -> "Standard"
      [] style = "M22759 High-Strength" -> "High-Strength"
      [] OTHER -> style

\* Mutant: a second core is emitted for the insulation.
cores_data_22759_two(row, base_color) ==
    << [CoreId |-> <<"1">>, Gauge |-> row["AWG Size"], InsulationColor |-> base_color],
       [CoreId |-> <<"1">>, Gauge |-> row["AWG Size"], InsulationColor |-> base_color] >>

\* Lines 194-202: the single core.
cores_data_22759(row, base_color) ==
    LET cond_diam == row["Conductor Diameter"].metric
        insul_max_od == row["Insulation Diameter Maximum"].metric
        insul_thick == HalfDifference(insul_max_od, cond_diam)
    IN  << [CoreId |-> <<"1">>,
            ConductorDiameter |-> Round3(cond_diam),
            InsulationThickness |-> IF insul_thick[1] > 0 THEN Round3(insul_thick) ELSE Zero,
            InsulationColor |-> base_color,
            Gauge |-> row["AWG Size"],
            ConductorMaterial |->
                <<"Plated Copper (", StyleWithoutPrefix(row["_Matched_Style"]), ")">>] >>

\* Lines 174-228: the record of one row.
Record22759(row) ==
    LET part_number == Without(row["Part Number"], "*")
        base_color == base_color_of(part_number)
    IN  [CableId |-> <<"m22759-">>
                        \o [k \in DOMAIN part_number |->
                              IF part_number[k] \in {"/", " "} THEN "-"
                              ELSE IF part_number[k] = "M22759" THEN "m22759"
                              ELSE part_number[k]],
         PartNumber |-> part_number,
         Manufacturer |-> "Thermax (Implied)",
         Type |-> 1,
         Cores |-> cores_data_22759(row, base_color),
         JacketThickness |-> Zero,
         JacketColor |-> base_color,
         HasShield |-> FALSE,
         ShieldType |-> 0,
         SpecifiedOuterDiameter |-> Round3(row["Insulation Diameter Maximum"].metric)]

\* Lines 167-230
transform_to_core_format_22759(normalized_data_22759) ==
    [k \in DOMAIN normalized_data_22759 |-> Record22759(normalized_data_22759[k])]

\* main: all_structured_data, the rows of the selected documents; not empty
\* when the transformation is called (line 354).
HookInit ==
    /\ hpc = "ready"
    /\ rows_22759 \in SeqsUpTo(Rows22759, MaxBatch) \ {<<>>}
    /\ final_22759 = <<>>
    /\ generator_runs = 0

\* main, lines 354-361: the collected rows are transformed and written.
Transform22759 ==
    /\ hpc = "ready"
    /\ final_22759' = transform_to_core_format_22759(rows_22759)
    /\ hpc' = "done"
    /\ UNCHANGED <<rows_22759, generator_runs>>
    /\ UNCHANGED <<mergeVars, scanVars, unitVars, lappVars, asmVars>>

(***************************************************************************)
(*                          Idle values                                    *)
(***************************************************************************)

MergeIdle == MergeInit

HookIdle ==
    /\ generator_runs = 0
    /\ hpc = "idle"
    /\ rows_22759 = <<>>
    /\ final_22759 = <<>>

ScanIdle == ScanInit

UnitIdle ==
    /\ upToken = <<>>
    /\ upFamily = "none"
    /\ upResult = [kind |-> "none"]

LappIdle ==
    /\ lappRow = NoRow
    /\ lappNorm = [kind |-> "none"]

AsmIdle ==
    /\ tpc = "idle"
    /\ normalized_data = <<>>
    /\ tPos = 1
    /\ final_output = <<>>
    /\ printed = <<>>
    /\ emitted_from = <<>>
    /\ geometry = <<>>

(***************************************************************************)
(*                          Specifications                                 *)
(***************************************************************************)

InitMerge == MergeInit /\ ScanIdle /\ UnitIdle /\ LappIdle /\ AsmIdle /\ HookIdle

NextMerge ==
    \/ SkipMissingFile
    \/ ReadFile
    \/ ProcessCable
    \/ EndFile
    \/ WriteLibrary

SpecMerge == InitMerge /\ [][NextMerge]_vars

InitUnit == UnitInit /\ MergeIdle /\ ScanIdle /\ LappIdle /\ AsmIdle /\ HookIdle

NextUnit ==
    \/ ParseUnitPair22759
    \/ ParseUnitPair27500

SpecUnit == InitUnit /\ [][NextUnit]_vars

InitScan == ScanInit /\ MergeIdle /\ UnitIdle /\ LappIdle /\ AsmIdle /\ HookIdle

NextScan ==
    \/ SkipDocument
    \/ StartDocument
    \/ ScanContext
    \/ ScanHeader
    \/ ScanDataRow
    \/ EndDocument
    \/ Transform27500

SpecScan == InitScan /\ [][NextScan]_vars

InitLapp == LappInit /\ MergeIdle /\ ScanIdle /\ UnitIdle /\ AsmIdle /\ HookIdle

NextLapp == NormalizeRow

SpecLapp == InitLapp /\ [][NextLapp]_vars

InitAssemble == AsmInit /\ MergeIdle /\ ScanIdle /\ UnitIdle /\ LappIdle /\ HookIdle

NextAssemble ==
    \/ SkipNoConductors
    \/ WarnUnparseableOD
    \/ SkipNonPositiveOD
    \/ EmitRecord
    \/ ReturnOutput

SpecAssemble == InitAssemble /\ [][NextAssemble]_vars

\* The library over the runs of the merger and of the generator script.
InitLibrary == InitMerge

NextLibrary ==
    \/ SkipMissingFile
    \/ ReadFile
    \/ ProcessCable
    \/ EndFile
    \/ WriteLibrary
    \/ GenerateM22759

SpecLibrary == InitLibrary /\ [][NextLibrary]_vars

\* The three assemblers, one of which is run.
InitCores ==
    \/ InitAssemble
    \/ InitScan
    \/ HookInit /\ MergeIdle /\ ScanIdle /\ UnitIdle /\ LappIdle /\ AsmIdle

NextHookup == Transform22759

\* The script that is run: the one that was given rows, and the M27500
\* script, which reads its documents itself, otherwise.
RunsAssemble == tpc # "idle"
RunsHookup   == hpc # "idle"
RunsScan     == ~ RunsAssemble /\ ~ RunsHookup

NextCores ==
    \/ RunsAssemble /\ NextAssemble
    \/ RunsScan /\ NextScan
    \/ RunsHookup /\ NextHookup

SpecCores == InitCores /\ [][NextCores]_vars

(***************************************************************************)
(*                   Claims about the library merger                       *)
(***************************************************************************)

\* The records the loop has handled so far, in input order (file order, then
\* position within the file).
Processed ==
    IF mpc = "loop"
    THEN Flatten(SubSeq(inputs, 1, Len(inputs) - 1)) \o SubSeq(cables, 1, mPos - 1)
    ELSE Flatten(inputs)

IdOf(cable) == DictGet(cable, "CableId")

\* The positions of Processed that hold the first record of a usable id.
FirstPositions ==
    {k \in DOMAIN Processed :
        /\ Truthy(IdOf(Processed[k]))
        /\ \A j \in 1..(k - 1) : IdOf(Processed[j]) # IdOf(Processed[k])}

FirstPositionOf(id) ==
    CHOOSE k \in FirstPositions : IdOf(Processed[k]) = id

\* lib holds, without repeats and in order of first occurrence, the filtered
\* first record of every usable id handled so far.
FirstOccurrenceLibrary(lib) ==
    /\ \A i, j \in DOMAIN lib : i # j => IdOf(lib[i]) # IdOf(lib[j])
    /\ \A k \in FirstPositions : \E i \in DOMAIN lib : IdOf(lib[i]) = IdOf(Processed[k])
    /\ \A i \in DOMAIN lib :
          /\ \E k \in FirstPositions : IdOf(Processed[k]) = IdOf(lib[i])
          /\ lib[i] = filter_cable_entry(Processed[FirstPositionOf(IdOf(lib[i]))])
    /\ \A i, j \in DOMAIN lib :
          i < j => FirstPositionOf(IdOf(lib[i])) < FirstPositionOf(IdOf(lib[j]))

\* C1: after any sequence of input lists, no two records of the merged
\* library share a CableId, the record kept for a CableId is the first one
\* met in input order, and the library lists the kept records in order of
\* first occurrence; this holds of the accumulator after every record and
\* of the library that is written.
C1_FirstOccurrenceWins ==
    /\ FirstOccurrenceLibrary(all_cables)
    /\ mpc = "done" => FirstOccurrenceLibrary(library.Cables)

\* A merge has finished in which a later record repeated the id of an
\* earlier, different record, and at least two records were kept.
C1_Witness ==
    /\ mpc = "done"
    /\ Len(library.Cables) >= 2
    /\ \E i, j \in DOMAIN Processed :
          /\ i < j
          /\ Truthy(IdOf(Processed[i]))
          /\ IdOf(Processed[i]) = IdOf(Processed[j])
          /\ Processed[i] # Processed[j]

\* The CableIds of a list (None for a record without one).
IdsOf(list) == {IdOf(list[i]) : i \in DOMAIN list}

\* The pairs A = inputs[a], B = inputs[b] merged in that order with nothing
\* else contributing: the remaining file is missing or empty.
TwoListRuns ==
    {ab \in (1..NumJsonFiles) \X (1..NumJsonFiles) :
        /\ ab[1] < ab[2]
        /\ \A c \in (1..NumJsonFiles) \ {ab[1], ab[2]} : inputs[c] = <<>>}

\* The merged count and the survivors the claim states for lists A and B.
TwoListResult(A, B) ==
    /\ Len(library.Cables) = Len(A) + Len(B) - Cardinality(IdsOf(A) \cap IdsOf(B))
    /\ \A id \in IdsOf(A) \cap IdsOf(B) :
          \E i \in DOMAIN library.Cables : \E k \in DOMAIN A :
             /\ IdOf(A[k]) = id
             /\ library.Cables[i] = filter_cable_entry(A[k])

\* Every record of the list has a non-empty CableId, as every record the
\* extractors write has.
HasIds(list) == \A i \in DOMAIN list : Truthy(IdOf(list[i]))

\* C2 as stated: for any two lists A and B merged in that order the library
\* holds len(A) + len(B) - overlapCount records and the survivor of every
\* overlapping CableId is the record of A (stated here for lists of records
\* that all carry a CableId).
C2_Original ==
    mpc = "done" =>
        \A ab \in TwoListRuns :
            (HasIds(inputs[ab[1]]) /\ HasIds(inputs[ab[2]]))
                => TwoListResult(inputs[ab[1]], inputs[ab[2]])

\* Every record of the list has a non-empty CableId and no CableId occurs
\* twice in the list.
DistinctIds(list) ==
    /\ HasIds(list)
    /\ \A i, j \in DOMAIN list : i # j => IdOf(list[i]) # IdOf(list[j])

\* C2 amended: the count and the survivors are as stated when, within each of
\* the two lists, every record has a non-empty CableId and no CableId is
\* repeated.
C2_Amended ==
    mpc = "done" =>
        \A ab \in TwoListRuns :
            (DistinctIds(inputs[ab[1]]) /\ DistinctIds(inputs[ab[2]]))
                => TwoListResult(inputs[ab[1]], inputs[ab[2]])

\* Two repeat-free lists with an overlapping id, held by different records,
\* have been merged.
C2_Witness ==
    /\ mpc = "done"
    /\ \E ab \in TwoListRuns :
          /\ DistinctIds(inputs[ab[1]]) /\ DistinctIds(inputs[ab[2]])
          /\ \E i \in DOMAIN inputs[ab[1]] : \E j \in DOMAIN inputs[ab[2]] :
                /\ IdOf(inputs[ab[1]][i]) = IdOf(inputs[ab[2]][j])
                /\ inputs[ab[1]][i] # inputs[ab[2]][j]

\* The record of lib at position i keeps exactly the allow-listed attributes
\* of its source record src, each with its value, and each of its cores
\* exactly the allow-listed attributes of the source core, each with its value.
KeepsAllowListed(rec, src) ==
    /\ DOMAIN rec = (DOMAIN src) \cap ALLOWED_CABLE_PARAMS
    /\ \A k \in (DOMAIN rec) \ {"Cores"} : rec[k] = src[k]
    /\ "Cores" \in DOMAIN rec =>
          /\ Len(rec["Cores"]) = Len(src["Cores"])
          /\ \A c \in DOMAIN rec["Cores"] :
                /\ DOMAIN rec["Cores"][c] = (DOMAIN src["Cores"][c]) \cap ALLOWED_CORE_PARAMS
                /\ \A k \in DOMAIN rec["Cores"][c] : rec["Cores"][c][k] = src["Cores"][c][k]

ExtensionAttributes == {"JacketMaterial", "ShieldMaterial", "Weight (kg/km)"}

OnlyAllowListed(lib) ==
    \A i \in DOMAIN lib :
        /\ DOMAIN lib[i] \subseteq ALLOWED_CABLE_PARAMS
        /\ (DOMAIN lib[i]) \cap ExtensionAttributes = {}
        /\ "Cores" \in DOMAIN lib[i] =>
              \A c \in DOMAIN lib[i]["Cores"] :
                  DOMAIN lib[i]["Cores"][c] \subseteq ALLOWED_CORE_PARAMS
        /\ \E k \in DOMAIN Processed :
              /\ IdOf(Processed[k]) = IdOf(lib[i])
              /\ KeepsAllowListed(lib[i], Processed[k])

\* C3: every record of the written library (and of the accumulator before)
\* has only allow-listed attributes, each of its cores has only allow-listed
\* core attributes, every allow-listed attribute of the input record is kept
\* with its value, and no extension attribute reaches the library.
C3_AllowListOnly ==
    /\ OnlyAllowListed(all_cables)
    /\ mpc = "done" => OnlyAllowListed(library.Cables)

\* The written library holds a record whose input carried an extension
\* attribute of the cable and one of a core.
C3_Witness ==
    /\ mpc = "done"
    /\ \E i \in DOMAIN library.Cables : \E k \in DOMAIN Processed :
          /\ IdOf(Processed[k]) = IdOf(library.Cables[i])
          /\ KeepsAllowListed(library.Cables[i], Processed[k])
          /\ (DOMAIN Processed[k]) \cap ExtensionAttributes # {}
          /\ "Cores" \in DOMAIN Processed[k]
          /\ \E c \in DOMAIN Processed[k]["Cores"] :
                ~ (DOMAIN Processed[k]["Cores"][c] \subseteq ALLOWED_CORE_PARAMS)

(***************************************************************************)
(*                   Claims about the M27500 scan                          *)
(***************************************************************************)

\* The positions of the current document's matches, before position p, that
\* hold a match of the kind.
Before(p, kind) == {i \in 1..(p - 1) : text[i].kind = kind}

Last(S) == CHOOSE i \in S : \A j \in S : j <= i

\* The type codes a declaration names: its tokens other than the separators.
DeclaredCodes(decl) == {decl[k] : k \in DOMAIN decl} \ {" ", ",", "and", "AND"}

\* The data row just consumed had no context declaration or no section
\* header before it in its document.
RowBeforeContext ==
    /\ spc = "scan"
    /\ text # <<>>
    /\ text[Len(text)].kind = "row"
    /\ (Before(Len(text), "context") = {} \/ Before(Len(text), "header") = {})

\* C4: a data row met before both a context declaration and a section header
\* of its document emits no row.
C4_RowBeforeContextDiscarded ==
    [][(spc = "scan" /\ Len(text') = Len(text) + 1 /\ RowBeforeContext')
            => results' = results]_vars

\* A document with a section header but no declaration has had a data row
\* consumed, and nothing was emitted.
C4_Witness ==
    /\ RowBeforeContext
    /\ Before(Len(text), "header") # {}
    /\ results = <<>>

\* C5: every emitted row carries the conductor count of the last section
\* header before its data row and a type code of the last context
\* declaration before its data row.
C5_MostRecentContext ==
    \A r \in DOMAIN results :
        /\ Before(origin[r], "header") # {}
        /\ Before(origin[r], "context") # {}
        /\ results[r]["Conductor Count"] =
              DigitValue(text[Last(Before(origin[r], "header"))].CONDUCTOR_COUNT)
        /\ results[r]["M27500 Type Code"] \in
              DeclaredCodes(text[Last(Before(origin[r], "context"))].TYPE_CODES)

\* What does hold of every emitted row: its conductor count is that of the
\* last section header before its data row, and when the last declaration
\* before it separates its codes by ',' or lower-case 'and', its type code is
\* one of that declaration's.
MostRecentContextOfSplitDeclarations ==
    \A r \in DOMAIN results :
        /\ Before(origin[r], "header") # {}
        /\ Before(origin[r], "context") # {}
        /\ results[r]["Conductor Count"] =
              DigitValue(text[Last(Before(origin[r], "header"))].CONDUCTOR_COUNT)
        /\ LET decl == text[Last(Before(origin[r], "context"))].TYPE_CODES
           IN  (\A k \in DOMAIN decl : decl[k] # "AND") =>
                   results[r]["M27500 Type Code"] \in DeclaredCodes(decl)

\* C6: the context in force during a call comes from the document of that
\* call: a call starts with the empty context, active type codes were
\* declared in the current document and a positive conductor count was set by
\* a header of the current document, so no row is emitted before them.
C6_ContextPerDocument ==
    spc = "scan" =>
        /\ text = <<>> => current_context = [conductor_count |-> 0, type_codes |-> <<>>]
        /\ current_context.type_codes # <<>> => Before(Len(text) + 1, "context") # {}
        /\ current_context.conductor_count > 0 => Before(Len(text) + 1, "header") # {}
        /\ results # <<>> =>
              /\ Before(Len(text) + 1, "context") # {}
              /\ Before(Len(text) + 1, "header") # {}

\* An earlier document established a context and emitted rows; the current
\* document began with a data row, which was discarded.
C6_Witness ==
    /\ spc = "scan"
    /\ docNo >= 2
    /\ all_structured_data # <<>>
    /\ text # <<>>
    /\ text[1].kind = "row"
    /\ results = <<>>

(***************************************************************************)
(*                   Claims about parse_unit_pair                          *)
(***************************************************************************)

\* The token without the blanks around it.
Trimmed == strip(upToken)

\* A written number: digits with at most one decimal point.
IsNumber(s) ==
    /\ \A k \in DOMAIN s : s[k] \in Digits \cup {"."}
    /\ \E k \in DOMAIN s : s[k] \in Digits
    /\ \A j, k \in DOMAIN s : (s[j] = "." /\ s[k] = ".") => j = k

\* The value of a written number, as a fraction in lowest terms.
NumberValue(s) ==
    LET point == IF \E k \in DOMAIN s : s[k] = "."
                 THEN CHOOSE k \in DOMAIN s : s[k] = "." ELSE Len(s)
        digits == SelectSeq(s, LAMBDA c : c # ".")
    IN  Rat(IntOf(digits), Pow10(Len(s) - point))

\* The product of two fractions, in lowest terms.
Times(a, b) == Rat(a[1] * b[1], a[2] * b[2])

\* The splits <<i, j>> of s as 'a (c)': a = s[1..i], blanks, "(" at j,
\* c = s[j+1..Len(s)-1], ")" at the end.
PairSplits(s) ==
    {ij \in (DOMAIN s) \X (DOMAIN s) :
        /\ ij[1] < ij[2] /\ ij[2] + 1 < Len(s)
        /\ \A k \in (ij[1] + 1)..(ij[2] - 1) : s[k] = " "
        /\ s[ij[2]] = "(" /\ s[Len(s)] = ")"
        /\ \A k \in (1..ij[1]) \cup ((ij[2] + 1)..(Len(s) - 1)) : s[k] \in Digits \cup {"."}}

PairA(s, ij) == SubSeq(s, 1, ij[1])
PairC(s, ij) == SubSeq(s, ij[2] + 1, Len(s) - 1)

\* s cannot be parsed as a number: it is no number, and neither s nor a
\* piece s begins with is 'a (c)' with numbers a and c.
Unparseable(s) ==
    /\ ~ IsNumber(s)
    /\ \A n \in DOMAIN s : \A ij \in PairSplits(SubSeq(s, 1, n)) :
          ~ (IsNumber(PairA(SubSeq(s, 1, n), ij)) /\ IsNumber(PairC(SubSeq(s, 1, n), ij)))

C8_BareNumberPolicy ==
    (upResult.kind # "none" /\ IsNumber(Trimmed)) =>
        /\ upResult.kind = "return"
        /\ upResult.value.us = NumberValue(Trimmed)
        /\ upFamily = "M22759" => upResult.value.metric = <<0, 1>>
        /\ upFamily = "M27500" =>
              Times(upResult.value.metric, <<127, 5>>) = upResult.value.us

\* The M22759 parser was given a bare non-zero number.
C8_Witness ==
    /\ upFamily = "M22759"
    /\ IsNumber(Trimmed)
    /\ upResult.kind = "return"
    /\ upResult.value.us # <<0, 1>>
    /\ upResult.value.metric = <<0, 1>>

(***************************************************************************)
(*               Claims about normalize_cable_properties                   *)
(***************************************************************************)

\* The construction or description text of the row, <<>> for a row without.
RowText ==
    IF "Construction" \in DOMAIN lappRow.row_data
    THEN lappRow.row_data["Construction"]
    ELSE IF "Conductor Description" \in DOMAIN lappRow.row_data
         THEN lappRow.row_data["Conductor Description"]
         ELSE <<>>

\* The numbers written in s: [from, to, n], a longest run of digits and its
\* value.
Numbers(s) ==
    {[from |-> i, to |-> j, n |-> IntOf(SubSeq(s, i, j))] :
        <<i, j>> \in {ij \in (DOMAIN s) \X (DOMAIN s) :
            /\ ij[1] <= ij[2]
            /\ \A k \in ij[1]..ij[2] : s[k] \in Digits
            /\ At(s, ij[1] - 1) \notin Digits
            /\ At(s, ij[2] + 1) \notin Digits}}

\* The token after position j and the blanks that follow it.
NextWord(s, j) == At(s, CHOOSE k \in (j + 1)..(Len(s) + 1) :
                           /\ At(s, k) # " "
                           /\ \A m \in (j + 1)..(k - 1) : s[m] = " ")

\* The pairing notations in s: a number N, then 'pr' or 'pair', or
\* 'x' and a number directly followed by 'x'; blanks may separate N, the
\* word and the second number.
PairingNotations(s) ==
    {a \in Numbers(s) :
        \/ NextWord(s, a.to) \in {"pr", "pair"}
        \/ /\ NextWord(s, a.to) = "x"
           /\ \E b \in Numbers(s) :
                 /\ b.from > a.to
                 /\ \E x \in (a.to + 1)..(b.from - 1) :
                       /\ s[x] = "x"
                       /\ \A m \in ((a.to + 1)..(b.from - 1)) \ {x} : s[m] = " "
                 /\ At(s, b.to + 1) = "x"}

\* The conductor-count notations in s: a number directly followed by 'c'.
CountNotations(s) == {a \in Numbers(s) : At(s, a.to + 1) = "c"}

\* The leftmost of a non-empty set of notations.
First(notations) == CHOOSE a \in notations : \A b \in notations : a.from <= b.from

Normalized == lappNorm.kind = "row"
TotalConductors == lappNorm.row["Total Conductors"]
PairingConfiguration == lappNorm.row["Pairing Configuration"]

\* 'N pr', N written without leading zeros.
Pairs(n) == PyStr(IntToChars(n) \o <<" ", "pr">>)

FixedLayout == PyStr(<<"2", "P", " ", "+", " ", "1", "T">>)

\* C9 as stated: a normalized row whose text carries pairing notation 'N pr'
\* ('N pair', 'N x M x') has Total Conductors = 2N and Pairing Configuration
\* = 'N pr', whatever the row's family (N read off the leftmost notation).
C9_Original ==
    (Normalized /\ PairingNotations(RowText) # {}) =>
        /\ TotalConductors = PyInt(2 * First(PairingNotations(RowText)).n)
        /\ PairingConfiguration = Pairs(First(PairingNotations(RowText)).n)

\* C9, amended: in the Ethernet/Industrial and Profibus/General families a
\* normalized row whose text carries pairing notation has Total Conductors
\* = 2N and Pairing Configuration = 'N pr', N the number of the leftmost
\* notation; a DeviceNet row with a text has the fixed layout '2P + 1T' with
\* 5 conductors, pairing notation or not.
C9_Amended ==
    Normalized =>
        /\ (/\ lappRow.style_name \in {STYLE_ETHERNET, STYLE_PROFIBUS}
            /\ PairingNotations(RowText) # {}) =>
               /\ TotalConductors = PyInt(2 * First(PairingNotations(RowText)).n)
               /\ PairingConfiguration = Pairs(First(PairingNotations(RowText)).n)
        /\ (lappRow.style_name = STYLE_DEVICENET /\ RowText # <<>>) =>
               /\ TotalConductors = PyInt(5)
               /\ PairingConfiguration = FixedLayout

\* A Profibus row written 'N x M x' with N = 2 was normalized to 4 conductors.
C9_Witness ==
    /\ Normalized
    /\ lappRow.style_name = STYLE_PROFIBUS
    /\ \E a \in PairingNotations(RowText) : a.n = 2 /\ NextWord(RowText, a.to) = "x"
    /\ TotalConductors = PyInt(4)
    /\ PairingConfiguration = Pairs(2)

\* C10 as stated: a normalized row whose text carries 'Nc' and no pairing
\* notation has Total Conductors = N; with both notations in the text the
\* pairing notation is the one applied.
C10_Original ==
    (Normalized /\ CountNotations(RowText) # {}) =>
        IF PairingNotations(RowText) = {}
        THEN TotalConductors = PyInt(First(CountNotations(RowText)).n)
        ELSE /\ TotalConductors = PyInt(2 * First(PairingNotations(RowText)).n)
             /\ PairingConfiguration.value[Len(PairingConfiguration.value)] = "pr"

\* C10, amended: the same for the rows of the Ethernet/Industrial and
\* Profibus/General families (N the number of the leftmost 'Nc'); a DeviceNet
\* row has 5 conductors whatever notation its text carries.
C10_Amended ==
    (Normalized /\ CountNotations(RowText) # {}) =>
        IF lappRow.style_name = STYLE_DEVICENET
        THEN TotalConductors = PyInt(5)
        ELSE IF PairingNotations(RowText) = {}
        THEN TotalConductors = PyInt(First(CountNotations(RowText)).n)
        ELSE /\ TotalConductors = PyInt(2 * First(PairingNotations(RowText)).n)
             /\ PairingConfiguration.value[Len(PairingConfiguration.value)] = "pr"

\* A Profibus row whose text carries both notations, with numbers that give
\* different totals, was normalized.
C10_Witness ==
    /\ Normalized
    /\ lappRow.style_name = STYLE_PROFIBUS
    /\ CountNotations(RowText) # {}
    /\ PairingNotations(RowText) # {}
    /\ First(CountNotations(RowText)).n # 2 * First(PairingNotations(RowText)).n
    /\ First(CountNotations(RowText)).from < First(PairingNotations(RowText)).from

(***************************************************************************)
(*              Claims about the M27500 normalizer and assembler           *)
(***************************************************************************)

\* The rows normalized so far: those of the current call and those collected.
NormalizedRows27500 == all_structured_data \o results

Transformed == spc = "done"

UnknownType(row) == row["M27500 Type Code"] \notin DOMAIN M27500_TYPE_CODE_DEFAULTS

\* C17: a row whose type code is not in the type-code default table is
\* normalized (a row exists) with shield code 'U' and jacket code '00', and
\* its record has HasShield = false and ShieldType = 0.
C17_UnknownTypeUnshielded ==
    /\ \A k \in DOMAIN NormalizedRows27500 :
          UnknownType(NormalizedRows27500[k]) =>
             /\ NormalizedRows27500[k]["_Shield_Material_Code"] = "U"
             /\ NormalizedRows27500[k]["_Jacket_Material_Code"] = "00"
    /\ Transformed =>
          /\ Len(final_data) = Len(all_structured_data)
          /\ \A k \in DOMAIN final_data :
                UnknownType(all_structured_data[k]) =>
                   /\ final_data[k]["HasShield"] = FALSE
                   /\ final_data[k]["ShieldType"] = 0

\* A row of type ZZ, which is in no table, was normalized and assembled into
\* an unshielded record, next to a row of a listed type.
C17_Witness ==
    /\ Transformed
    /\ \E k \in DOMAIN final_data :
          /\ all_structured_data[k]["M27500 Type Code"] = "ZZ"
          /\ final_data[k]["HasShield"] = FALSE
    /\ \E k \in DOMAIN final_data : ~ UnknownType(all_structured_data[k])

\* s padded on the left with "0" to two characters.
ZeroPadded(s) == IF Len(s) = 0 THEN <<"0", "0">> ELSE IF Len(s) = 1 THEN <<"0">> \o s ELSE s

\* The part number built from a gauge code and the row's other pieces.
PartNumberFrom(gauge_code, row) ==
    <<"M27500-">> \o gauge_code \o <<row["M27500 Type Code"]>>
        \o IntToChars(row["Conductor Count"])
        \o <<"C", row["_Shield_Material_Code"], row["_Jacket_Material_Code"]>>

GaugeCode(gauge) ==
    CASE \A k \in DOMAIN gauge : gauge[k] \in Digits -> ZeroPadded(IntToChars(IntOf(gauge)))
      [] "/" \in {gauge[k] : k \in DOMAIN gauge} -> SelectSeq(gauge, LAMBDA c : c # "/")
      [] OTHER -> <<"X", "X">>

Resolved(table, code) ==
    IF code \in DOMAIN table THEN table[code] ELSE "Code " \o code

\* C19: in every record the component wire specification, the shield
\* material and the jacket material are their codes resolved through the
\* three tables, a code absent from its table giving 'Code <value>'.
C19_CodesResolved ==
    Transformed =>
        \A k \in DOMAIN final_data :
            LET row == all_structured_data[k]
                rec == final_data[k]
                spec == Resolved(M27500_COMPONENT_CODES, row["M27500 Type Code"])
            IN  /\ Join(rec["ShieldMaterial"])
                      = Resolved(M27500_SHIELD_CODES, row["_Shield_Material_Code"])
                /\ Join(rec["JacketMaterial"])
                      = Resolved(M27500_JACKET_CODES, row["_Jacket_Material_Code"])
                /\ \A i \in DOMAIN rec["Cores"] :
                      Join(rec["Cores"][i]["ConductorMaterial"])
                          = "Plated Copper (from " \o spec \o ")"

\* What does hold: the shield and jacket codes are resolved as C19 says, and
\* the component wire specification of a type code absent from its table is
\* 'UNKNOWN'.
CodesResolvedOrUnknown ==
    Transformed =>
        \A k \in DOMAIN final_data :
            LET row == all_structured_data[k]
                rec == final_data[k]
                type == row["M27500 Type Code"]
            IN  /\ Join(rec["ShieldMaterial"])
                      = Resolved(M27500_SHIELD_CODES, row["_Shield_Material_Code"])
                /\ Join(rec["JacketMaterial"])
                      = Resolved(M27500_JACKET_CODES, row["_Jacket_Material_Code"])
                /\ \A i \in DOMAIN rec["Cores"] :
                      Join(rec["Cores"][i]["ConductorMaterial"])
                          = "Plated Copper (from "
                             \o (IF type \in DOMAIN M27500_COMPONENT_CODES
                                 THEN M27500_COMPONENT_CODES[type] ELSE "UNKNOWN") \o ")"

(***************************************************************************)
(*                   Claims about the LAPP record assembler                *)
(***************************************************************************)

\* The rows the loop has gone through, and those a record was made of.
Visited == 1..(tPos - 1)
Emitted == {emitted_from[k] : k \in DOMAIN emitted_from}

\* The row's Total Conductors is an integer >= 1 (not the sentinel N/A, not
\* missing, not 0).
PositiveIntegerCount(row) ==
    /\ "Total Conductors" \in DOMAIN row
    /\ row["Total Conductors"].type = "int"
    /\ row["Total Conductors"].value >= 1

\* Every record was appended for one row, in step with emitted_from.
RecordsFollowRows ==
    /\ Len(final_output) = Len(emitted_from)
    /\ \A k \in DOMAIN final_output :
          /\ emitted_from[k] \in Visited
          /\ final_output[k].PartNumber
                = Without(normalized_data[emitted_from[k]]["Part Number"], "*")

\* C11: no record is emitted for a row whose Total Conductors is not a
\* positive integer (the sentinel N/A, 0), and every emitted record comes
\* from a row whose Total Conductors is an integer >= 1.
C11_NoRecordWithoutConductors ==
    /\ RecordsFollowRows
    /\ \A p \in Visited :
          ~ PositiveIntegerCount(normalized_data[p]) => p \notin Emitted
    /\ \A k \in DOMAIN final_output :
          /\ PositiveIntegerCount(normalized_data[emitted_from[k]])
          /\ Len(final_output[k].Cores) >= 1

\* A batch was assembled in which a row of count N/A and a row of count 0
\* gave no record and another row gave one.
C11_Witness ==
    /\ tpc = "done"
    /\ final_output # <<>>
    /\ \E p \in Visited \ Emitted :
          /\ normalized_data[p]["Total Conductors"].type = "str"
          /\ normalized_data[p]["Total Conductors"].value = <<"N/A">>
    /\ \E p \in Visited \ Emitted :
          /\ normalized_data[p]["Total Conductors"].type = "int"
          /\ normalized_data[p]["Total Conductors"].value = 0

\* The outer-diameter text of a row without its blanks, and what it reads as:
\* a number is digits with at most one point.
OdText(row) == SelectSeq(row["Nominal OD (mm)"], LAMBDA c : c # " ")

OdIsNumber(row) ==
    /\ \A k \in DOMAIN OdText(row) : OdText(row)[k] \in Digits \cup {"."}
    /\ Cardinality({k \in DOMAIN OdText(row) : OdText(row)[k] = "."}) <= 1
    /\ \E k \in DOMAIN OdText(row) : OdText(row)[k] \in Digits

OdIsPositive(row) ==
    OdIsNumber(row) /\ \E k \in DOMAIN OdText(row) : OdText(row)[k] \in Digits \ {"0"}

\* A diagnostic was printed for row p that names its raw diameter text and
\* its part number.
Diagnosed(p) ==
    \E d \in DOMAIN printed :
        /\ printed[d].row = p
        /\ printed[d].raw_od_mm = normalized_data[p]["Nominal OD (mm)"]
        /\ printed[d].part_number = Without(normalized_data[p]["Part Number"], "*")

\* C12: a row (with a usable conductor count) whose outer diameter is
\* unparseable or not positive is skipped, every such skip produces a
\* diagnostic naming the raw value and the part number, and every emitted
\* record has SpecifiedOuterDiameter > 0.
C12_RejectedDiameterDiagnosed ==
    /\ \A p \in Visited :
          (PositiveIntegerCount(normalized_data[p]) /\ ~ OdIsPositive(normalized_data[p]))
              => (p \notin Emitted /\ Diagnosed(p))
    /\ \A k \in DOMAIN final_output : final_output[k].SpecifiedOuterDiameter[1] > 0

\* What does hold: such a row is skipped, the unparseable diameter is
\* diagnosed, and every record has a positive diameter.
RejectedDiameterSkipped ==
    /\ \A p \in Visited :
          (PositiveIntegerCount(normalized_data[p]) /\ ~ OdIsPositive(normalized_data[p]))
              => /\ p \notin Emitted
                 /\ ~ OdIsNumber(normalized_data[p]) => Diagnosed(p)
    /\ \A k \in DOMAIN final_output : final_output[k].SpecifiedOuterDiameter[1] > 0

\* The row has a positive-integer conductor count and a positive parseable
\* outer diameter.
GoodRow(row) == PositiveIntegerCount(row) /\ OdIsPositive(row)

\* The positions of the good rows among the first n, in input order.
RECURSIVE GoodPositions(_)
GoodPositions(n) ==
    IF n = 0 THEN <<>>
    ELSE IF GoodRow(normalized_data[n]) THEN Append(GoodPositions(n - 1), n)
         ELSE GoodPositions(n - 1)

\* The loop has a step to take on the row it stands at: the row is skipped,
\* with or without a warning, or a record with a jacket thickness is made.
RowIsHandled ==
    LET row == normalized_data[tPos]
        od  == nominal_od_mm_of(row)
    IN  \/ ~ HasConductors(row)
        \/ ~ od.ok
        \/ od.value[1] <= 0
        \/ JacketThicknessValues(Thousandths(od.value),
                                 max_core_od_of(cores_data_of(row, style_of(row),
                                                row["Total Conductors"].value)),
                                 row["Total Conductors"].value,
                                 shield_thickness_of(has_shield_of(row))) # {}

\* C13: for any sequence of rows, the records the assembler has made are
\* exactly one for each row gone through that has a positive-integer
\* conductor count and a positive parseable outer diameter, in input order,
\* and none for the others; whatever rows were rejected, the loop has a step
\* to take on the next row, and it returns only after the last row.
C13_BatchNeverAborted ==
    /\ RecordsFollowRows
    /\ emitted_from = GoodPositions(tPos - 1)
    /\ (tpc = "loop" /\ tPos <= Len(normalized_data)) => RowIsHandled
    /\ tpc = "done" => tPos = Len(normalized_data) + 1

\* A batch was assembled in which a row with an unparseable diameter and a
\* row rejected for another reason (no count, or a diameter of zero) both
\* came before a row that gave a record.
C13_Witness ==
    /\ tpc = "done"
    /\ \E p, q \in Visited \ Emitted : \E r \in Emitted :
          /\ p < r /\ q < r
          /\ Diagnosed(p)
          /\ ~ Diagnosed(q)

\* C14: every record has JacketThickness >= 0.5 mm, whatever the outer
\* diameter, the core count and the shield state.
C14_MinimumJacket ==
    \A k \in DOMAIN final_output : final_output[k].JacketThickness >= 500

\* The largest core of a record, in thousandths.
MaxCoreOD(rec) ==
    CHOOSE x \in {rec.Cores[i].ConductorDiameter + 2 * rec.Cores[i].InsulationThickness :
                    i \in DOMAIN rec.Cores} :
        \A i \in DOMAIN rec.Cores :
            rec.Cores[i].ConductorDiameter + 2 * rec.Cores[i].InsulationThickness <= x

\* Records whose bundle is wider than the specified outer diameter were
\* emitted with the minimum jacket, with and without shield and under both
\* bundle rules.
C14_Witness ==
    \E k \in DOMAIN final_output :
        /\ final_output[k].JacketThickness = 500
        /\ 2 * MaxCoreOD(final_output[k]) * final_output[k].SpecifiedOuterDiameter[2]
              > 1000 * final_output[k].SpecifiedOuterDiameter[1]
        /\ final_output[k].HasShield
        /\ Len(final_output[k].Cores) > 4

\* The shield allowance of a record, in thousandths.
ShieldAllowance(rec) == IF rec.HasShield THEN 50 ELSE 0

\* Four times max(0.5, (SpecifiedOuterDiameter - 2 maxCoreOD)/2 -
\* shieldAllowance), in thousandths times the denominator of the diameter.
FourTimesFormula(rec) ==
    LET num == rec.SpecifiedOuterDiameter[1]
        den == rec.SpecifiedOuterDiameter[2]
        value == 2000 * num - (4 * MaxCoreOD(rec) + 4 * ShieldAllowance(rec)) * den
    IN  IF value < 2000 * den THEN 2000 * den ELSE value

SmallBundle(k) == Len(final_output[k].Cores) <= 4

\* C15 as stated: for a row of 4 or fewer conductors the bundle diameter is
\* 2 x maxCoreOD and JacketThickness = max(0.5, (SpecifiedOuterDiameter -
\* bundleDiameter)/2 - shieldAllowance), the allowance being 0.05 with a
\* shield and 0 without.
C15_Original ==
    \A k \in DOMAIN final_output :
        SmallBundle(k) =>
            /\ geometry[k] = [rule |-> "double", max_core_od |-> MaxCoreOD(final_output[k])]
            /\ final_output[k].ShieldThickness = ShieldAllowance(final_output[k])
            /\ 4 * final_output[k].JacketThickness * final_output[k].SpecifiedOuterDiameter[2]
                  = FourTimesFormula(final_output[k])

\* C15, amended: JacketThickness is that value rounded to three decimals: a
\* whole number of thousandths at most half a thousandth away from it; 4
\* conductors of core 2.0 mm in 9.0 mm without shield give 2.5 mm.
C15_Amended ==
    /\ \A k \in DOMAIN final_output :
          SmallBundle(k) =>
             LET den  == final_output[k].SpecifiedOuterDiameter[2]
                 diff == 4 * final_output[k].JacketThickness * den
                            - FourTimesFormula(final_output[k])
             IN  /\ geometry[k] = [rule |-> "double",
                                   max_core_od |-> MaxCoreOD(final_output[k])]
                 /\ final_output[k].ShieldThickness = ShieldAllowance(final_output[k])
                 /\ diff <= 2 * den /\ diff >= - 2 * den
    /\ JacketThicknessValues(9000, 2000, 4, 0) = {2500}

\* A shielded record of at most 4 conductors was emitted above the minimum
\* for the diameter 7.125, whose formula value has four decimals.
C15_Witness ==
    \E k \in DOMAIN final_output :
        /\ SmallBundle(k) /\ final_output[k].HasShield
        /\ final_output[k].JacketThickness > 500
        /\ final_output[k].SpecifiedOuterDiameter = <<57, 8>>

\* jt thousandths is max(0.5, (od - m (1 + sqrt(n)/2))/2 - st) rounded to
\* three decimals: with a == 2 od - 2 m - 4 st, four times the exact value
\* is a - m sqrt(n), and the comparisons are made on the squares.
IsRoundedRootRule(jt, od, m, n, st) ==
    LET a == 2 * od - 2 * m - 4 * st
        AtMost(b)  == b >= 0 /\ (b > 40000 \/ m * m * n <= b * b)
        AtLeast(b) == b <= 0 \/ (b <= 40000 /\ m * m * n >= b * b)
    IN  \/ jt > 500 /\ AtMost(a - 4 * jt + 2) /\ AtLeast(a - 4 * jt - 2)
        \/ jt = 500 /\ AtLeast(a - 4 * 500 - 2)

\* The same under the doubling rule, where the bundle is 2 m.
IsRoundedDoubleRule(jt, od, m, st) ==
    LET exact4 == 2 * od - 4 * m - 4 * st
    IN  \/ jt > 500 /\ exact4 - 4 * jt <= 2 /\ exact4 - 4 * jt >= -2
        \/ jt = 500 /\ exact4 - 4 * 500 <= 2

\* C16: for a row of more than 4 conductors the bundle diameter behind the
\* jacket thickness is maxCoreOD x (1 + sqrt(totalConductors)/2); a row of
\* exactly 4 conductors has the doubling rule and a row of 5 the square-root
\* rule.
C16_SquareRootBundle ==
    \A k \in DOMAIN final_output :
        LET rec == final_output[k]
            n   == normalized_data[emitted_from[k]]["Total Conductors"].value
            od  == (rec.SpecifiedOuterDiameter[1] * 1000) \div rec.SpecifiedOuterDiameter[2]
        IN  /\ Len(rec.Cores) = n
            /\ geometry[k].max_core_od = MaxCoreOD(rec)
            /\ n > 4 => /\ geometry[k].rule = "sqrt"
                        /\ IsRoundedRootRule(rec.JacketThickness, od, MaxCoreOD(rec), n,
                                             ShieldAllowance(rec))
            /\ n <= 4 => /\ geometry[k].rule = "double"
                         /\ IsRoundedDoubleRule(rec.JacketThickness, od, MaxCoreOD(rec),
                                                ShieldAllowance(rec))

\* A batch gave a record of 4 conductors and a record of 5 conductors, the
\* second with a jacket that the doubling rule would not give.
C16_Witness ==
    /\ tpc = "done"
    /\ \E k \in DOMAIN final_output : Len(final_output[k].Cores) = 4
    /\ \E k \in DOMAIN final_output :
          LET rec == final_output[k]
          IN  /\ Len(rec.Cores) = 5
              /\ rec.JacketThickness > 500
              /\ ~ IsRoundedDoubleRule(rec.JacketThickness,
                                       (rec.SpecifiedOuterDiameter[1] * 1000)
                                           \div rec.SpecifiedOuterDiameter[2],
                                       MaxCoreOD(rec), ShieldAllowance(rec))

\* Some core's InsulationColor equals 'drain' case-insensitively.
HasDrainCore(rec) ==
    \E i \in DOMAIN rec.Cores : rec.Cores[i].InsulationColor \in {"Drain", "drain", "DRAIN"}

\* C20: HasDrainWire is true if and only if some core's InsulationColor is
\* 'drain' case-insensitively; DrainWireDiameter is 0.644 mm when it is true
\* and 0 otherwise; it is true exactly for the records of the DeviceNet
\* family, whose 5 cores end with a Drain core.
C20_DrainWire ==
    \A k \in DOMAIN final_output :
        LET rec == final_output[k]
            row == normalized_data[emitted_from[k]]
        IN  /\ rec.HasDrainWire = HasDrainCore(rec)
            /\ rec.DrainWireDiameter = IF rec.HasDrainWire THEN 644 ELSE 0
            /\ rec.HasDrainWire = (row["_Matched_Style"] = STYLE_DEVICENET)
            /\ row["_Matched_Style"] = STYLE_DEVICENET =>
                  /\ Len(rec.Cores) = 5
                  /\ rec.Cores[5].InsulationColor = "Drain"
                  /\ \A i \in 1..4 : rec.Cores[i].InsulationColor # "Drain"

\* A batch gave a DeviceNet record with a drain wire and a record of another
\* family without one.
C20_Witness ==
    /\ tpc = "done"
    /\ \E k \in DOMAIN final_output :
          final_output[k].HasDrainWire /\ final_output[k].DrainWireDiameter = 644
    /\ \E k \in DOMAIN final_output :
          ~ final_output[k].HasDrainWire /\ final_output[k].DrainWireDiameter = 0

(***************************************************************************)
(*              Claims about reports, order and frames                     *)
(***************************************************************************)

\* The positions of Processed whose record was not added, and those whose
\* record repeats the usable id of an earlier record.
DroppedPositions == (DOMAIN Processed) \ FirstPositions

DuplicatePositions ==
    {k \in DOMAIN Processed :
        /\ Truthy(IdOf(Processed[k]))
        /\ \E j \in 1..(k - 1) : IdOf(Processed[j]) = IdOf(Processed[k])}

RECURSIVE SumOf(_)
SumOf(ns) == IF ns = <<>> THEN 0 ELSE Head(ns) + SumOf(Tail(ns))

\* C23: a record is dropped only when its CableId was already added, every
\* dropped duplicate is reported once, and the drops are counted: the numbers
\* printed for the files read add up to the records added, the rest of the
\* records read being the duplicates; the merge goes on to the end.
C23_DuplicatesReportedAndCounted ==
    /\ Len(all_cables) = Cardinality(FirstPositions)
    /\ DroppedPositions = DuplicatePositions
    /\ Len(skipped) = Cardinality(DuplicatePositions)
    /\ mpc \in {"open", "done"} => SumOf(added_printed) = Len(all_cables)

\* What does hold: only first records of a usable id are added, and every
\* later record of such an id is reported once, with its id.
DuplicatesReported ==
    /\ Len(all_cables) = Cardinality(FirstPositions)
    /\ DuplicatePositions \subseteq DroppedPositions
    /\ Len(skipped) = Cardinality(DuplicatePositions)
    /\ \A k \in DOMAIN skipped :
          \E j \in DuplicatePositions : IdOf(Processed[j]) = skipped[k]


(***************************************************************************)
(*        Claims about the rows and the context of the M27500 scan         *)
(***************************************************************************)

\* The context in force when the match at position p of the current document
\* is met: the declarations and headers before p, applied in document order
\* to the empty context.
RECURSIVE ContextAt(_)
ContextAt(p) ==
    IF p <= 1 THEN [conductor_count |-> 0, type_codes |-> <<>>]
    ELSE LET before == ContextAt(p - 1)
             m == text[p - 1]
         IN  CASE m.kind = "context" ->
                      [before EXCEPT !.type_codes = ParseTypeCodes(m.TYPE_CODES)]
               [] m.kind = "header" ->
                      [before EXCEPT !.conductor_count = DigitValue(m.CONDUCTOR_COUNT)]
               [] OTHER -> before

\* The data rows of the current document that were accepted: those met with
\* type codes declared and a positive conductor count.
AcceptedRows ==
    {p \in DOMAIN text :
        /\ text[p].kind = "row"
        /\ ContextAt(p).type_codes # <<>>
        /\ ContextAt(p).conductor_count > 0}

\* The type codes of the emitted rows that come from the data row at p, in
\* the order of the emitted list.
RECURSIVE CodesEmittedFor(_, _)
CodesEmittedFor(p, r) ==
    IF r > Len(results) THEN <<>>
    ELSE (IF origin[r] = p THEN <<results[r]["M27500 Type Code"]>> ELSE <<>>)
            \o CodesEmittedFor(p, r + 1)

ActiveCodeCount(p) == Len(ContextAt(p).type_codes)

\* The sum of the numbers of active type codes over the data rows of S.
RECURSIVE ActiveCodeTotal(_)
ActiveCodeTotal(S) ==
    IF S = {} THEN 0
    ELSE LET p == CHOOSE q \in S : TRUE IN ActiveCodeCount(p) + ActiveCodeTotal(S \ {p})

\* C24: every accepted data row emits one row per active type code, in the
\* order the codes were declared; a data row that is not accepted emits none;
\* the emitted list follows the document order of the data rows; and the
\* number of emitted rows is the sum, over the accepted data rows, of the
\* number of active type codes.
C24_OneRowPerTypeCode ==
    spc = "scan" =>
        /\ Len(origin) = Len(results)
        /\ \A r \in DOMAIN origin : origin[r] \in AcceptedRows
        /\ \A r, q \in DOMAIN origin : r <= q => origin[r] <= origin[q]
        /\ \A p \in AcceptedRows : CodesEmittedFor(p, 1) = ContextAt(p).type_codes
        /\ Len(results) = ActiveCodeTotal(AcceptedRows)

\* Two data rows were accepted, the first under the declaration 'SA and TA':
\* three or more rows were emitted, SA before TA.
C24_Witness ==
    /\ spc = "scan"
    /\ Cardinality(AcceptedRows) = 2
    /\ \E p \in AcceptedRows :
          /\ CodesEmittedFor(p, 1) = <<"SA", "TA">>
          /\ \E q \in AcceptedRows : q > p /\ CodesEmittedFor(q, 1) # <<>>
    /\ Len(results) >= 3

\* The match just consumed.
LastMatch == text[Len(text)]

\* C26: a context declaration changes only the active type codes, a section
\* header changes only the conductor count, and neither emits a row; a data
\* row changes neither; hence every emitted row carries the conductor count
\* of the last section header before its data row, whatever declarations
\* came in between.
C26_ContextFrame ==
    /\ [][(spc = "scan" /\ spc' = "scan" /\ Len(text') = Len(text) + 1) =>
            /\ LastMatch'.kind = "context" =>
                  /\ current_context'.conductor_count = current_context.conductor_count
                  /\ results' = results
            /\ LastMatch'.kind = "header" =>
                  /\ current_context'.type_codes = current_context.type_codes
                  /\ results' = results
            /\ LastMatch'.kind = "row" => current_context' = current_context]_vars
    /\ [](\A r \in DOMAIN results :
            /\ Before(origin[r], "header") # {}
            /\ results[r]["Conductor Count"] =
                  DigitValue(text[Last(Before(origin[r], "header"))].CONDUCTOR_COUNT))

\* A section header, then a context declaration that replaced the type codes
\* of an earlier one, then a data row with no header in between: the row was
\* emitted with the conductor count of the header.
C26_Witness ==
    /\ spc = "scan"
    /\ Len(text) = 4
    /\ text[1].kind = "context"
    /\ text[2].kind = "header"
    /\ text[3].kind = "context"
    /\ text[3].TYPE_CODES # text[1].TYPE_CODES
    /\ text[4].kind = "row"
    /\ results # <<>>
    /\ results[1]["Conductor Count"] = DigitValue(text[2].CONDUCTOR_COUNT)

\* C27: two normalized rows of the same type code and conductor count and of
\* different gauges never have the same Full Part Number Base.
C27_PartNumberDistinguishesGauges ==
    \A j, k \in DOMAIN NormalizedRows27500 :
        LET a == NormalizedRows27500[j]
            b == NormalizedRows27500[k]
        IN  (/\ a["M27500 Type Code"] = b["M27500 Type Code"]
             /\ a["Conductor Count"] = b["Conductor Count"]
             /\ a["AWG Size"] # b["AWG Size"])
                => a["Full Part Number Base"] # b["Full Part Number Base"]

\* What does hold: rows of one type code and conductor count whose gauges
\* are both plain numbers have different part numbers.
PartNumberDistinguishesNumericGauges ==
    \A j, k \in DOMAIN NormalizedRows27500 :
        LET a == NormalizedRows27500[j]
            b == NormalizedRows27500[k]
        IN  (/\ a["M27500 Type Code"] = b["M27500 Type Code"]
             /\ a["Conductor Count"] = b["Conductor Count"]
             /\ IsDigitString(a["AWG Size"]) /\ IsDigitString(b["AWG Size"])
             /\ IntOf(a["AWG Size"]) # IntOf(b["AWG Size"]))
                => a["Full Part Number Base"] # b["Full Part Number Base"]

\* C29: every type code of the type-code default table has a default shield
\* code that is a key of the shield-material table and a default jacket code
\* that is a key of the jacket-material table, so the record of a row of a
\* listed type has table strings as ShieldMaterial and JacketMaterial.
C29_DefaultCodesAreTableKeys ==
    Transformed =>
        \A k \in DOMAIN final_data :
            LET row == all_structured_data[k]
                type_code == row["M27500 Type Code"]
            IN  type_code \in DOMAIN M27500_TYPE_CODE_DEFAULTS =>
                   /\ get_default_codes_by_type(type_code)[1] \in DOMAIN M27500_SHIELD_CODES
                   /\ get_default_codes_by_type(type_code)[2] \in DOMAIN M27500_JACKET_CODES
                   /\ final_data[k]["ShieldMaterial"]
                         = <<M27500_SHIELD_CODES[row["_Shield_Material_Code"]]>>
                   /\ final_data[k]["JacketMaterial"]
                         = <<M27500_JACKET_CODES[row["_Jacket_Material_Code"]]>>

\* What does hold: the default jacket code of every listed type is a key of
\* the jacket-material table and the record's JacketMaterial is its string;
\* the default shield code of every listed type is 'N', which is no key of
\* the shield-material table, and the record's ShieldMaterial is 'Code N'.
DefaultJacketCodesAreTableKeys ==
    /\ \A t \in DOMAIN M27500_TYPE_CODE_DEFAULTS :
          /\ M27500_TYPE_CODE_DEFAULTS[t][2] \in DOMAIN M27500_JACKET_CODES
          /\ M27500_TYPE_CODE_DEFAULTS[t][1] \notin DOMAIN M27500_SHIELD_CODES
    /\ Transformed =>
          \A k \in DOMAIN final_data :
              LET row == all_structured_data[k]
              IN  row["M27500 Type Code"] \in DOMAIN M27500_TYPE_CODE_DEFAULTS =>
                     /\ final_data[k]["JacketMaterial"]
                           = <<M27500_JACKET_CODES[row["_Jacket_Material_Code"]]>>
                     /\ final_data[k]["ShieldMaterial"] = <<"Code ", "N">>

(***************************************************************************)
(*        Claims about shields, colours and gauges of the LAPP records     *)
(***************************************************************************)

\* The text mentions 'braid', in any case.
MentionsBraid(words) == \E k \in DOMAIN words : words[k] \in {"Braid", "braid", "BRAID"}

\* The part number contains the shield marker letter C, in either case.
HasShieldMarker(part_number) == \E k \in DOMAIN part_number : part_number[k] \in {"C", "c"}

\* The free text of a row: its approvals and its construction or conductor
\* description.
Approvals(row) == Get(row, "Approvals", <<>>)
DescriptionText(row) ==
    Get(row, "Construction", <<>>) \o Get(row, "Conductor Description", <<>>)

ShieldValues(rec) ==
    IF rec.HasShield
    THEN rec.ShieldThickness = 50 /\ rec.ShieldCoverage = 85
    ELSE rec.ShieldThickness = 0 /\ rec.ShieldCoverage = 0 /\ rec.ShieldType = 0

\* C21: HasShield is true if and only if the part number contains the shield
\* marker letter or the row's approvals or description mention 'braid' in any
\* case; ShieldThickness is 0.05 and ShieldCoverage 85 when it is true, and
\* both are 0 and ShieldType is 0 when it is false.
C21_ShieldDetection ==
    \A k \in DOMAIN final_output :
        LET rec == final_output[k]
            row == normalized_data[emitted_from[k]]
        IN  /\ rec.HasShield = (\/ HasShieldMarker(rec.PartNumber)
                                \/ MentionsBraid(Approvals(row))
                                \/ MentionsBraid(DescriptionText(row)))
            /\ ShieldValues(rec)

\* What does hold: the same with the Approvals column alone; a description
\* that mentions 'braid' makes no shield.
ShieldDetectedFromApprovals ==
    \A k \in DOMAIN final_output :
        LET rec == final_output[k]
            row == normalized_data[emitted_from[k]]
        IN  /\ rec.HasShield = (\/ HasShieldMarker(rec.PartNumber)
                                \/ MentionsBraid(Approvals(row)))
            /\ ShieldValues(rec)

\* The paired palette and the sequential palette.
PairedPalette ==
    << "Blue", "White/Blue", "Orange", "White/Orange",
       "Green", "White/Green", "Brown", "White/Brown" >>

SequentialPalette == COLOR_MULTICONDUCTOR

\* The row's pairing notation indicates pairs.
IndicatesPairs(row) ==
    LET pairing == row["Pairing Configuration"].value
    IN  pairing # <<>> /\ pairing[Len(pairing)] = "pr"

PaletteOf(row, rec) ==
    IF IndicatesPairs(row) /\ Len(rec.Cores) % 2 = 0 THEN PairedPalette ELSE SequentialPalette

\* C22: in every record that is not of the DeviceNet family, the core at
\* position i has the colour palette[(i-1) mod |palette|] of the paired
\* palette when the row's pairing notation indicates pairs and the number of
\* conductors is even, and of the 18-colour sequential palette otherwise.
C22_PaletteByPosition ==
    /\ Len(PairedPalette) = 8
    /\ Len(SequentialPalette) = 18
    /\ \A k \in DOMAIN final_output :
          LET rec == final_output[k]
              row == normalized_data[emitted_from[k]]
              palette == PaletteOf(row, rec)
          IN  row["_Matched_Style"] # STYLE_DEVICENET =>
                 /\ Len(rec.Cores) = row["Total Conductors"].value
                 /\ \A i \in DOMAIN rec.Cores :
                       rec.Cores[i].InsulationColor = palette[((i - 1) % Len(palette)) + 1]

\* A row of 5 pairs was assembled: the cores 9 and 10 start the paired
\* palette again.
C22_Witness ==
    \E k \in DOMAIN final_output :
        /\ IndicatesPairs(normalized_data[emitted_from[k]])
        /\ Len(final_output[k].Cores) = 10
        /\ final_output[k].Cores[8].InsulationColor = "White/Brown"
        /\ final_output[k].Cores[9].InsulationColor = "Blue"
        /\ final_output[k].Cores[10].InsulationColor = "White/Blue"

\* The row's size is written in KCMIL.
KcmilSized(row) ==
    \E k \in DOMAIN row["AWG/Size"].value : row["AWG/Size"].value[k] = "KCMIL"

\* C30: the Gauge of every core names an entry of the gauge table, and the
\* core's ConductorDiameter and InsulationThickness are that entry's values;
\* a KCMIL-sized row gets the KCMIL entry.
C30_GaugeNamesTableEntry ==
    \A k \in DOMAIN final_output :
        LET rec == final_output[k]
            row == normalized_data[emitted_from[k]]
        IN  \A i \in DOMAIN rec.Cores :
               LET core == rec.Cores[i]
               IN  /\ core.Gauge \in DOMAIN AWG_TO_DIAMETER_MM
                   /\ core.ConductorDiameter = AWG_TO_DIAMETER_MM[core.Gauge]
                   /\ core.InsulationThickness = AWG_TO_INSULATION_MM[core.Gauge]
                   /\ (row["_Matched_Style"] # STYLE_DEVICENET /\ KcmilSized(row))
                         => core.Gauge = "KCMIL"

\* What does hold: the dimensions of a core are those of its Gauge when the
\* table has it and those of 22 AWG otherwise, whatever the Gauge says; the
\* Gauge of a KCMIL-sized row is '22'.
GaugeDimensionsOrDefault ==
    \A k \in DOMAIN final_output :
        LET rec == final_output[k]
            row == normalized_data[emitted_from[k]]
        IN  \A i \in DOMAIN rec.Cores :
               LET core == rec.Cores[i]
                   entry == IF core.Gauge \in DOMAIN AWG_TO_DIAMETER_MM
                            THEN core.Gauge ELSE "22"
               IN  /\ core.ConductorDiameter = AWG_TO_DIAMETER_MM[entry]
                   /\ core.InsulationThickness = AWG_TO_INSULATION_MM[entry]
                   /\ (row["_Matched_Style"] # STYLE_DEVICENET /\ KcmilSized(row))
                         => core.Gauge = "22"

(***************************************************************************)
(*       Claims about the persisted library and the cores of a record      *)
(***************************************************************************)

\* C25: the persisted library holds no two records with the same CableId,
\* after any runs of the merger and of the generator script.
C25_LibraryIdsUnique ==
    mpc = "done" =>
        \A i, j \in DOMAIN library.Cables :
            i # j => DictGet(library.Cables[i], "CableId") # DictGet(library.Cables[j], "CableId")

\* What does hold: the library is free of repeated ids until the generator
\* has run twice, and the entries of one run have different ids.
LibraryIdsUniqueUntilSecondRun ==
    /\ \A i, j \in DOMAIN generated_cables :
          i # j => generated_cables[i].CableId # generated_cables[j].CableId
    /\ (mpc = "done" /\ generator_runs <= 1) =>
          \A i, j \in DOMAIN library.Cables :
              i # j => DictGet(library.Cables[i], "CableId")
                          # DictGet(library.Cables[j], "CableId")

\* The decimal numeral of n, for 1 <= n <= 99, one character a token.
Numeral(n) ==
    LET digit(d) == CHOOSE c \in Digits : DigitValue(c) = d
    IN  IF n < 10 THEN <<digit(n)>> ELSE <<digit(n \div 10), digit(n % 10)>>

\* The CoreIds of the cores are '1'..'N' in list order.
CoreIdsInOrder(cores) == \A i \in DOMAIN cores : cores[i].CoreId = Numeral(i)

\* C28: every record has one core per conductor position: a LAPP record has
\* as many cores as the row's Total Conductors (5 for DeviceNet), an M27500
\* record as many as the row's Conductor Count, which is between 1 and 9, an
\* M22759 record exactly one, and the CoreIds are '1'..'N' in list order.
C28_OneCorePerPosition ==
    /\ \A k \in DOMAIN final_output :
          LET rec == final_output[k]
              row == normalized_data[emitted_from[k]]
          IN  /\ Len(rec.Cores) = row["Total Conductors"].value
              /\ row["_Matched_Style"] = STYLE_DEVICENET => Len(rec.Cores) = 5
              /\ CoreIdsInOrder(rec.Cores)
    /\ Len(final_data) \in {0, Len(all_structured_data)}
    /\ \A k \in DOMAIN final_data :
          /\ Len(final_data[k]["Cores"]) = all_structured_data[k]["Conductor Count"]
          /\ Len(final_data[k]["Cores"]) \in 1..9
          /\ CoreIdsInOrder(final_data[k]["Cores"])
    /\ Len(final_22759) \in {0, Len(rows_22759)}
    /\ \A k \in DOMAIN final_22759 :
          /\ Len(final_22759[k].Cores) = 1
          /\ CoreIdsInOrder(final_22759[k].Cores)

\* The M22759 rows of a batch of three were assembled, each into a record
\* of one core.
C28_Witness ==
    /\ hpc = "done"
    /\ Len(final_22759) = 3
    /\ \A k \in DOMAIN final_22759 : final_22759[k].Cores[1].CoreId = <<"1">>
=============================================================================
